---- MODULE Spec2Model ----
(***************************************************************************)
(* Model of dvrpc/eco-counter-import (src/src/main.rs): the poll loop, the *)
(* CSV decoder, the daily aggregator and the three-phase load coordinator  *)
(* (delete, individual insert, aggregated insert) that fans work out to    *)
(* NUM_THREADS threads over crossbeam channels and Oracle connections.     *)
(***************************************************************************)
EXTENDS Integers, Sequences, FiniteSets, Bags, TLC

(***************************************************************************)
(* Bounds of the model.                                                    *)
(***************************************************************************)
\* Files that arrive in one behaviour (poll iterations that find a file).
MaxRuns == 2
\* Data rows of an arriving file.
MaxRows == 2
\* Layout entries whose records the load coordinator carries in Spec; the
\* decoder specification SpecDecode always uses the whole LAYOUT.
MaxEntries == 1
\* Failures of the sink or of the pool injected in one behaviour.
MaxFaults == 1
\* Longest slice handed to IndividualCount::new on its own.
MaxSlice == 6

(***************************************************************************)
(* Program constants.                                                      *)
(***************************************************************************)
\* main.rs:135 sets NUM_THREADS to 10; the model runs the coordinator with a
\* smaller pool, every occurrence of the constant following it.
NUM_THREADS == 2

EXPECTED_HEADER == <<
    "Time",
    "Bartram's Garden",
    "Bartram's Garden Pedestrians NB - Bartram's Garden",
    "Bartram's Garden Pedestrians SB - Bartram's Garden",
    "Bartram's Garden Cyclists NB - Bartram's Garden",
    "Bartram's Garden Cyclists SB - Bartram's Garden",
    "Chester Valley Trail - East Whiteland Twp",
    "Chester Valley Trail - East Whiteland Twp CVT - EB - Pedestrian",
    "Chester Valley Trail - East Whiteland Twp CVT - WB - Pedestrian",
    "Chester Valley Trail - East Whiteland Twp CVT - EB - Bicycle",
    "Chester Valley Trail - East Whiteland Twp CVT - WB - Bicycle",
    "Cooper River Trail",
    "Cooper River Trail - EB Pedestrian",
    "Cooper River Trail - WB Pedestrian",
    "Cooper River Trail - EB Bicycle",
    "Cooper River Trail - WB Bicycle",
    "Cynwyd Heritage Trail",
    "Cynwyd Heritage Trail Pedestrian IN",
    "Cynwyd Heritage Trail Pedestrian OUT",
    "Cynwyd Heritage Trail CHT - WB - Bicycle",
    "Cynwyd Heritage Trail CHT - EB - Bicycle",
    "Darby Creek Trail",
    "Darby Creek Trail - Pedestrians - SB",
    "Darby Creek Trail - Pedestrians - NB",
    "Darby Creek Trail - Bicycle - SB",
    "Darby Creek Trail - Bicycle - NB",
    "Kelly Dr - Schuylkill River Trail",
    "Kelly Dr - Schuylkill River Trail Kelly Drive - Pedestrians - NB",
    "Kelly Dr - Schuylkill River Trail Kelly Drive - Pedestrians - SB",
    "Kelly Dr - Schuylkill River Trail Kelly Drive - Bicycle - NB",
    "Kelly Dr - Schuylkill River Trail Kelly Drive - Bicycle - SB",
    "Lawrence - Hopewell Trail",
    "Lawrence - Hopewell Trail LHT - Pedestrian - NB",
    "Lawrence - Hopewell Trail LHT - Pedestrian - SB",
    "Lawrence - Hopewell Trail LHT - Bicycle - NB",
    "Lawrence - Hopewell Trail LHT - Bicycle - SB",
    "Monroe Twp",
    "Monroe Twp Pedestrian IN",
    "Monroe Twp Pedestrian OUT",
    "Monroe Twp Monroe - Bicycle - EB",
    "Monroe Twp Monroe - Bicycle - WB",
    "Pawlings Rd - Schuylkill River Trail",
    "Pawlings Rd - Schuylkill River Trail Pawlings Rd - WB Pedestrian",
    "Pawlings Rd - Schuylkill River Trail Pawlings Rd - EB Pedestrian",
    "Pawlings Rd - Schuylkill River Trail Pawlings Rd - WB - Bicycle",
    "Pawlings Rd - Schuylkill River Trail Pawlings Rd - EB - Bicycle",
    "Pine St",
    "Pine St Pedestrian IN",
    "Pine St Pedestrian OUT",
    "Port Richmond",
    "Port Richmond - WB - Pedestrian",
    "Port Richmond - EB - Pedestrian",
    "Port Richmond - WB - Bicycle",
    "Port Richmond - EB - Bicycle",
    "Schuylkill Banks",
    "Schuylkill Banks - Pedestrian - NB",
    "Schuylkill Banks - Pedestrian - SB",
    "Schuylkill Banks - Bicycle - NB",
    "Schuylkill Banks - Bicycle - SB",
    "Spring Mill Station",
    "Spring Mill Station Pedestrians EB - To Philadelphia",
    "Spring Mill Station Pedestrians WB - To Conshohocken",
    "Spring Mill Station Cyclists EB - To Philadelphia",
    "Spring Mill Station Cyclists WB - To Conshohocken",
    "Spruce St",
    "Spruce St Pedestrian IN",
    "Spruce St Pedestrian OUT",
    "Tinicum Park - D&L Trail",
    "Tinicum Park - D&L Trail Hugh Moore Park - D&L Trail Pedestrians Wilkes-Barre (Bethlehem)",
    "Tinicum Park - D&L Trail Pedestrians Bristol (New Hope)",
    "Tinicum Park - D&L Trail Hugh Moore Park - D&L Trail Cyclists Wilkes-Barre (Bethlehem)",
    "Tinicum Park - D&L Trail Cyclists Bristol (New Hope)",
    "Tullytown",
    "Tullytown Pedestrians NB - Towards Trenton - IN",
    "Tullytown Pedestrians SB - Towards Tullytown - OUT",
    "Tullytown Cyclists NB - Towards Trenton - IN",
    "Tullytown Cyclists SB - Towards Tullytown - OUT",
    "US 202 Parkway Trail",
    "US 202 Parkway Trail US 202 Parkway - SB - Pedestrian",
    "US 202 Parkway Trail US 202 Parkway - NB - Pedestrian",
    "US 202 Parkway Trail US 202 Parkway - SB - Bicycle",
    "US 202 Parkway Trail US 202 Parkway - NB - Bicycle",
    "Washington Crossing",
    "Washington Crossing Pedestrians NB - To New Hope - IN",
    "Washington Crossing Pedestrians SB - To Yardley - OUT",
    "Washington Crossing Cyclists NB - To New Hope - IN",
    "Washington Crossing Cyclists SB - To Yardley - OUT",
    "Waterfront Display",
    "Waterfront Display Pedestrian IN",
    "Waterfront Display Pedestrian OUT",
    "Waterfront Display Cyclist IN",
    "Waterfront Display Cyclist OUT",
    "Wissahickon Trail",
    "Wissahickon Trail - Pedestrians - SB",
    "Wissahickon Trail - Pedestrians - NB",
    "Wissahickon Trail - Bicycles - SB",
    "Wissahickon Trail - Bicycles - NB",
    ""
>>

\* Option<i32>: None is the empty sequence, Some(v) the one-element sequence.
None == << >>
Some(v) == <<v>>
IsSome(o) == Len(o) = 1
Unwrap(o) == o[1]

I32_MAX == 2147483647
I32_MIN == -I32_MAX - 1

(***************************************************************************)
(* str::parse::<i32>() (main.rs:373).  A field is a sequence of one-       *)
(* character strings.  An optional sign, then at least one digit, nothing  *)
(* else; no trimming.  The value is accumulated with checked arithmetic,   *)
(* downwards after a minus sign, so a value outside i32 is an error.       *)
(* Errors become None through .ok().  Overflow is written NoNumber.        *)
(***************************************************************************)
Digits == {"0", "1", "2", "3", "4", "5", "6", "7", "8", "9"}
DigitVal(c) ==
    CASE c = "0" -> 0 [] c = "1" -> 1 [] c = "2" -> 2 [] c = "3" -> 3
      [] c = "4" -> 4 [] c = "5" -> 5 [] c = "6" -> 6 [] c = "7" -> 7
      [] c = "8" -> 8 [] c = "9" -> 9

CeilDiv10(x) == (x \div 10) + (IF x % 10 = 0 THEN 0 ELSE 1)

\* checked_mul(10) then checked_add(d) / checked_sub(d)
RECURSIVE Accumulate(_, _, _)
Accumulate(s, acc, neg) ==
    IF s = << >> THEN Some(acc)
    ELSE LET d == DigitVal(Head(s))
         IN  IF neg
             THEN IF acc < CeilDiv10(I32_MIN + d) THEN None
                  ELSE Accumulate(Tail(s), acc * 10 - d, neg)
             ELSE IF acc > (I32_MAX - d) \div 10 THEN None
                  ELSE Accumulate(Tail(s), acc * 10 + d, neg)

\* As ParseI32, but a field that is empty or no integer gives zero.
ParseI32OrZero(s) ==
    LET signed == s # << >> /\ Head(s) \in {"+", "-"}
        body == IF signed THEN Tail(s) ELSE s
        neg == signed /\ Head(s) = "-"
    IN  IF body = << >> \/ \E i \in 1..Len(body) : body[i] \notin Digits
        THEN Some(0)
        ELSE Accumulate(body, 0, neg)

ParseI32(s) ==
    LET signed == s # << >> /\ Head(s) \in {"+", "-"}
        body == IF signed THEN Tail(s) ELSE s
        neg == signed /\ Head(s) = "-"
    IN  IF body = << >> \/ \E i \in 1..Len(body) : body[i] \notin Digits
        THEN None
        ELSE Accumulate(body, 0, neg)

(***************************************************************************)
(* Timestamps.  The text of column 0 is modelled by its lexical fields     *)
(* [mon, day, year, hour, minute, ampm]; NaiveDateTime::parse_from_str     *)
(* with "%b %e, %Y %l:%M %p" (main.rs:359) accepts it when every field is  *)
(* in range and converts the 12-hour clock to the 24-hour clock.           *)
(***************************************************************************)
MonthNames == <<"Jan", "Feb", "Mar", "Apr", "May", "Jun",
                "Jul", "Aug", "Sep", "Oct", "Nov", "Dec">>
MonthUpper == <<"JAN", "FEB", "MAR", "APR", "MAY", "JUN",
                "JUL", "AUG", "SEP", "OCT", "NOV", "DEC">>
\* Rank of the upper-case abbreviation in byte order (String's Ord).
MonthRank == <<5, 4, 8, 1, 9, 7, 6, 2, 12, 11, 10, 3>>

IsLeap(y) == (y % 4 = 0 /\ y % 100 # 0) \/ y % 400 = 0
DaysInMonth(y, m) ==
    IF m = 2 THEN (IF IsLeap(y) THEN 29 ELSE 28)
    ELSE IF m \in {4, 6, 9, 11} THEN 30 ELSE 31

MonthNumber(name) ==
    IF \E m \in 1..12 : MonthNames[m] = name
    THEN CHOOSE m \in 1..12 : MonthNames[m] = name
    ELSE 0

\* Result<NaiveDateTime, ParseError>
ParseDateTime(t) ==
    LET m == MonthNumber(t.mon)
    IN  IF /\ m # 0
           /\ t.year \in 0..9999
           /\ t.day \in 1..DaysInMonth(t.year, m)
           /\ t.hour \in 1..12
           /\ t.minute \in 0..59
           /\ t.ampm \in {"AM", "PM"}
        THEN [ok |-> TRUE,
              val |-> [year |-> t.year, month |-> m, day |-> t.day,
                       hour |-> (t.hour % 12) + (IF t.ampm = "PM" THEN 12 ELSE 0),
                       minute |-> t.minute, second |-> 0]]
        ELSE [ok |-> FALSE]

\* NaiveDateTime::date() (main.rs:595)
DateOf(dt) == [year |-> dt.year, month |-> dt.month, day |-> dt.day]

\* datetime.format("%d-%b-%y").to_string().to_uppercase() (main.rs:368):
\* the text DD-MON-YY, which keeps only the last two digits of the year.
FormatDate(dt) == [dd |-> dt.day, mon |-> MonthUpper[dt.month], yy |-> dt.year % 100]

\* to_char(COUNTDATE, 'DD-MON-YY') of the delete statements (main.rs:721,730)
ToCharDDMONYY(ts) == [dd |-> ts.day, mon |-> MonthUpper[ts.month], yy |-> ts.year % 100]

\* Order of two DD-MON-YY texts as Strings (Vec::sort, main.rs:674).
MonthRankOf(mon) == MonthRank[CHOOSE m \in 1..12 : MonthUpper[m] = mon]
DateStrLeq(a, b) ==
    \/ a.dd < b.dd
    \/ a.dd = b.dd /\ MonthRankOf(a.mon) < MonthRankOf(b.mon)
    \/ a.dd = b.dd /\ a.mon = b.mon /\ a.yy <= b.yy

RECURSIVE InsertSorted(_, _)
InsertSorted(x, s) ==
    IF s = << >> THEN <<x>>
    ELSE IF DateStrLeq(x, Head(s)) THEN <<x>> \o s
    ELSE <<Head(s)>> \o InsertSorted(x, Tail(s))

RECURSIVE SortDates(_)
SortDates(s) == IF s = << >> THEN << >> ELSE InsertSorted(Head(s), SortDates(Tail(s)))

\* Vec::dedup (main.rs:675): removes consecutive repeated elements.
RECURSIVE Dedup(_)
Dedup(s) ==
    IF Len(s) <= 1 THEN s
    ELSE IF s[1] = s[2] THEN Dedup(Tail(s))
    ELSE <<s[1]>> \o Dedup(Tail(s))

(***************************************************************************)
(* IndividualCount::new (main.rs:32-79).  counts is the slice of the row.  *)
(***************************************************************************)
\* As IndividualCountNew, but a slice of another length is reported as too
\* long or too short.
IndividualCountNewByLength(location_id, datetime, counts, ped, bike) ==
    LET rec(pi, po, bi, bo) ==
            [ok |-> TRUE, err |-> "",
             val |-> [location_id |-> location_id, datetime |-> datetime,
                      total |-> counts[1],
                      ped_in |-> pi, ped_out |-> po, bike_in |-> bi, bike_out |-> bo]]
        fail(e) == [ok |-> FALSE, err |-> e, val |-> << >>]
    IN  IF Len(counts) = 5
        THEN IF ~bike /\ ~ped
             THEN fail("TooMany")
             ELSE rec(counts[2], counts[3], counts[4], counts[5])
        ELSE IF Len(counts) = 3
        THEN IF bike /\ ped
             THEN fail("TooFew")
             ELSE rec(IF ped /\ ~bike THEN counts[2] ELSE None,
                      IF ped /\ ~bike THEN counts[3] ELSE None,
                      IF ~ped /\ bike THEN counts[2] ELSE None,
                      IF ~ped /\ bike THEN counts[3] ELSE None)
        ELSE IF Len(counts) > 5 THEN fail("TooMany")
        ELSE fail("TooFew")

\* As IndividualCountNew, but the total is read one field further.
IndividualCountNewTotalShifted(location_id, datetime, counts, ped, bike) ==
    LET rec(pi, po, bi, bo) ==
            [ok |-> TRUE, err |-> "",
             val |-> [location_id |-> location_id, datetime |-> datetime,
                      total |-> counts[2],
                      ped_in |-> pi, ped_out |-> po, bike_in |-> bi, bike_out |-> bo]]
        fail(e) == [ok |-> FALSE, err |-> e, val |-> << >>]
    IN  IF Len(counts) = 5
        THEN IF ~bike /\ ~ped
             THEN fail("TooMany")
             ELSE rec(counts[2], counts[3], counts[4], counts[5])
        ELSE IF Len(counts) = 3
        THEN IF bike /\ ped
             THEN fail("TooFew")
             ELSE rec(IF ped /\ ~bike THEN counts[2] ELSE None,
                      IF ped /\ ~bike THEN counts[3] ELSE None,
                      IF ~ped /\ bike THEN counts[2] ELSE None,
                      IF ~ped /\ bike THEN counts[3] ELSE None)
        ELSE fail("UnexpectedNumber")

\* As IndividualCountNew, but a slice of three fields with the pedestrian
\* flag fills the bicycle pair and one with the bicycle flag the pedestrian
\* pair.
IndividualCountNewPairsSwapped(location_id, datetime, counts, ped, bike) ==
    LET rec(pi, po, bi, bo) ==
            [ok |-> TRUE, err |-> "",
             val |-> [location_id |-> location_id, datetime |-> datetime,
                      total |-> counts[1],
                      ped_in |-> pi, ped_out |-> po, bike_in |-> bi, bike_out |-> bo]]
        fail(e) == [ok |-> FALSE, err |-> e, val |-> << >>]
    IN  IF Len(counts) = 5
        THEN IF ~bike /\ ~ped
             THEN fail("TooMany")
             ELSE rec(counts[2], counts[3], counts[4], counts[5])
        ELSE IF Len(counts) = 3
        THEN IF bike /\ ped
             THEN fail("TooFew")
             ELSE rec(IF ~ped /\ bike THEN counts[2] ELSE None,
                      IF ~ped /\ bike THEN counts[3] ELSE None,
                      IF ped /\ ~bike THEN counts[2] ELSE None,
                      IF ped /\ ~bike THEN counts[3] ELSE None)
        ELSE fail("UnexpectedNumber")

IndividualCountNew(location_id, datetime, counts, ped, bike) ==
    LET rec(pi, po, bi, bo) ==
            [ok |-> TRUE, err |-> "",
             val |-> [location_id |-> location_id, datetime |-> datetime,
                      total |-> counts[1],
                      ped_in |-> pi, ped_out |-> po, bike_in |-> bi, bike_out |-> bo]]
        fail(e) == [ok |-> FALSE, err |-> e, val |-> << >>]
    IN  IF Len(counts) = 5
        THEN IF ~bike /\ ~ped
             THEN fail("TooMany")
             ELSE rec(counts[2], counts[3], counts[4], counts[5])
        ELSE IF Len(counts) = 3
        THEN IF bike /\ ped
             THEN fail("TooFew")
             ELSE rec(IF ped /\ ~bike THEN counts[2] ELSE None,
                      IF ped /\ ~bike THEN counts[3] ELSE None,
                      IF ~ped /\ bike THEN counts[2] ELSE None,
                      IF ~ped /\ bike THEN counts[3] ELSE None)
        ELSE fail("UnexpectedNumber")

(***************************************************************************)
(* The station layout: the twenty IndividualCount::new calls of the row    *)
(* loop (main.rs:388-589), each with its location id, the inclusive column *)
(* range counts[first..=last] (0-based, column 0 is the timestamp) and the *)
(* two capability flags.                                                   *)
(***************************************************************************)
LAYOUT == <<
    [location_id |-> 16, first |-> 1, last |-> 5, ped |-> TRUE, bike |-> TRUE],
    [location_id |-> 1, first |-> 6, last |-> 10, ped |-> TRUE, bike |-> TRUE],
    [location_id |-> 11, first |-> 11, last |-> 15, ped |-> TRUE, bike |-> TRUE],
    [location_id |-> 3, first |-> 16, last |-> 20, ped |-> TRUE, bike |-> TRUE],
    [location_id |-> 12, first |-> 21, last |-> 25, ped |-> TRUE, bike |-> TRUE],
    [location_id |-> 5, first |-> 26, last |-> 30, ped |-> TRUE, bike |-> TRUE],
    [location_id |-> 8, first |-> 31, last |-> 35, ped |-> TRUE, bike |-> TRUE],
    [location_id |-> 10, first |-> 36, last |-> 40, ped |-> TRUE, bike |-> TRUE],
    [location_id |-> 2, first |-> 41, last |-> 45, ped |-> TRUE, bike |-> TRUE],
    [location_id |-> 24, first |-> 46, last |-> 48, ped |-> FALSE, bike |-> TRUE],
    [location_id |-> 7, first |-> 49, last |-> 53, ped |-> TRUE, bike |-> TRUE],
    [location_id |-> 6, first |-> 54, last |-> 58, ped |-> TRUE, bike |-> TRUE],
    [location_id |-> 13, first |-> 59, last |-> 63, ped |-> TRUE, bike |-> TRUE],
    [location_id |-> 25, first |-> 64, last |-> 66, ped |-> FALSE, bike |-> TRUE],
    [location_id |-> 23, first |-> 67, last |-> 71, ped |-> TRUE, bike |-> TRUE],
    [location_id |-> 14, first |-> 72, last |-> 76, ped |-> TRUE, bike |-> TRUE],
    [location_id |-> 9, first |-> 77, last |-> 81, ped |-> TRUE, bike |-> TRUE],
    [location_id |-> 15, first |-> 82, last |-> 86, ped |-> TRUE, bike |-> TRUE],
    [location_id |-> 26, first |-> 87, last |-> 91, ped |-> TRUE, bike |-> TRUE],
    [location_id |-> 4, first |-> 92, last |-> 96, ped |-> TRUE, bike |-> TRUE]
>>

\* The header of the total column of each station, by location id: the
\* entries of EXPECTED_HEADER that main.rs:137-236 annotates with an id.
TOTAL_HEADER ==
    (16 :> "Bartram's Garden") @@
    (1 :> "Chester Valley Trail - East Whiteland Twp") @@
    (11 :> "Cooper River Trail") @@
    (3 :> "Cynwyd Heritage Trail") @@
    (12 :> "Darby Creek Trail") @@
    (5 :> "Kelly Dr - Schuylkill River Trail") @@
    (8 :> "Lawrence - Hopewell Trail") @@
    (10 :> "Monroe Twp") @@
    (2 :> "Pawlings Rd - Schuylkill River Trail") @@
    (24 :> "Pine St") @@
    (7 :> "Port Richmond") @@
    (6 :> "Schuylkill Banks") @@
    (13 :> "Spring Mill Station") @@
    (25 :> "Spruce St") @@
    (23 :> "Tinicum Park - D&L Trail") @@
    (14 :> "Tullytown") @@
    (9 :> "US 202 Parkway Trail") @@
    (15 :> "Washington Crossing") @@
    (26 :> "Waterfront Display") @@
    (4 :> "Wissahickon Trail")

\* As Slice, but the range excludes its last column: &counts[first..last].
SliceExclusive(counts, first, last) == SubSeq(counts, first + 1, last)

\* &counts[first..=last] of a 0-based Vec held as a 1-based sequence.
Slice(counts, first, last) == SubSeq(counts, first + 1, last + 1)

(***************************************************************************)
(* One iteration of the row loop (main.rs:347-589) on one CSV record.      *)
(* A record is [readable, time, fields]: fields are columns 1.. of the     *)
(* record (column 0 is the timestamp text).  The result is the date text   *)
(* pushed on `dates` and the records pushed on `all_counts`, or the error  *)
(* that ends the run.                                                      *)
(***************************************************************************)
\* As NewCounts, but a station whose total is absent gives no record.
RECURSIVE NewCountsSkipsAbsent(_, _, _, _)
NewCountsSkipsAbsent(layout, datetime, counts, acc) ==
    IF layout = << >> THEN [ok |-> TRUE, err |-> "", val |-> acc]
    ELSE LET e == Head(layout)
             r == IndividualCountNew(e.location_id, datetime,
                                     Slice(counts, e.first, e.last), e.ped, e.bike)
         IN  IF r.ok
             THEN NewCountsSkipsAbsent(Tail(layout), datetime, counts,
                                       IF IsSome(r.val.total) THEN Append(acc, r.val)
                                       ELSE acc)
             ELSE [ok |-> FALSE, err |-> r.err, val |-> << >>]

RECURSIVE NewCounts(_, _, _, _)
NewCounts(layout, datetime, counts, acc) ==
    IF layout = << >> THEN [ok |-> TRUE, err |-> "", val |-> acc]
    ELSE LET e == Head(layout)
             r == IndividualCountNew(e.location_id, datetime,
                                     Slice(counts, e.first, e.last), e.ped, e.bike)
         IN  IF r.ok
             THEN NewCounts(Tail(layout), datetime, counts, Append(acc, r.val))
             ELSE [ok |-> FALSE, err |-> r.err, val |-> << >>]

\* record.iter().map(|v| v.parse::<i32>().ok()) (main.rs:371-374); the
\* timestamp text of column 0 is never an integer.
ParseCounts(row) == <<None>> \o [i \in 1..Len(row.fields) |-> ParseI32(row.fields[i])]

DecodeRow(row, layout) ==
    LET fail(e) == [ok |-> FALSE, err |-> e, date |-> << >>, counts |-> << >>]
    IN  IF ~row.readable THEN fail("UnreadableRow")
        ELSE LET p == ParseDateTime(row.time)
             IN  IF ~p.ok THEN fail("ParseError")
                 ELSE LET counts == ParseCounts(row)
                      IN  IF Len(counts) # Len(EXPECTED_HEADER) THEN fail("FieldCount")
                          ELSE LET r == NewCounts(layout, p.val, counts, << >>)
                               IN  IF r.ok
                                   THEN [ok |-> TRUE, err |-> "",
                                         date |-> FormatDate(p.val), counts |-> r.val]
                                   ELSE fail(r.err)

(***************************************************************************)
(* Header validation (main.rs:313-334).  The second record of the file is  *)
(* [kind, fields]: kind is "absent" when the file has fewer than two       *)
(* records, "unreadable" when the record is a CSV error, else "record".    *)
(***************************************************************************)
\* As CheckHeader, but only the number of fields is compared.
CheckHeaderLength(header) ==
    IF header.kind = "absent" THEN "HeaderNotFound"
    ELSE IF header.kind = "unreadable" THEN "HeaderUnreadable"
    ELSE IF Len(header.fields) # Len(EXPECTED_HEADER) THEN "HeaderMismatch"
    ELSE "ok"

CheckHeader(header) ==
    IF header.kind = "absent" THEN "HeaderNotFound"
    ELSE IF header.kind = "unreadable" THEN "HeaderUnreadable"
    ELSE IF header.fields # EXPECTED_HEADER THEN "HeaderMismatch"
    ELSE "ok"

(***************************************************************************)
(* The aggregator (main.rs:591-672).  daily_counts is a function from      *)
(* <<location_id, date>> to <<running_ped, running_bike, running_total>>.  *)
(***************************************************************************)
\* Whether a + b leaves i32, and a + b as the release build computes it (two's
\* complement wrap), written so that no intermediate value leaves 32 bits.
\* A build with overflow checks panics instead.
Overflows(a, b) == (b > 0 /\ a > I32_MAX - b) \/ (b < 0 /\ a < I32_MIN - b)
AddI32(a, b) ==
    IF b > 0 /\ a > I32_MAX - b THEN (a + I32_MIN) + (b + I32_MIN)
    ELSE IF b < 0 /\ a < I32_MIN - b THEN (a - I32_MIN) + (b - I32_MIN)
    ELSE a + b

\* ped_total / bike_total of one count (main.rs:603-614, 625-636)
InOutTotal(vin, vout) ==
    IF IsSome(vout)
    THEN (IF IsSome(vin) THEN Some(AddI32(Unwrap(vin), Unwrap(vout))) ELSE vout)
    ELSE vin

\* adding one count's value to a running sum (main.rs:616-622, 638-644, 653-659)
AddRunning(running, v) ==
    IF IsSome(v)
    THEN (IF IsSome(running) THEN Some(AddI32(Unwrap(running), Unwrap(v))) ELSE v)
    ELSE running

\* As AggregateOne, but the date of the key keeps only the last two digits of
\* the year, as the date text of the delete does.
AggregateOneShortYear(daily_counts, count) ==
    LET key == <<count.location_id,
                 [DateOf(count.datetime) EXCEPT !.year = @ % 100]>>
        old == IF key \in DOMAIN daily_counts
               THEN daily_counts[key] ELSE <<None, None, None>>
        new == <<AddRunning(old[1], InOutTotal(count.ped_in, count.ped_out)),
                 AddRunning(old[2], InOutTotal(count.bike_in, count.bike_out)),
                 AddRunning(old[3], count.total)>>
    IN  [k \in (DOMAIN daily_counts) \cup {key} |->
            IF k = key THEN new ELSE daily_counts[k]]

\* main.rs:594-660: one count is added to the entry of its location and date.
AggregateOne(daily_counts, count) ==
    LET key == <<count.location_id, DateOf(count.datetime)>>
        old == IF key \in DOMAIN daily_counts
               THEN daily_counts[key] ELSE <<None, None, None>>
        new == <<AddRunning(old[1], InOutTotal(count.ped_in, count.ped_out)),
                 AddRunning(old[2], InOutTotal(count.bike_in, count.bike_out)),
                 AddRunning(old[3], count.total)>>
    IN  [k \in (DOMAIN daily_counts) \cup {key} |->
            IF k = key THEN new ELSE daily_counts[k]]

RECURSIVE Aggregate(_, _)
Aggregate(all_counts, daily_counts) ==
    IF all_counts = << >> THEN daily_counts
    ELSE Aggregate(Tail(all_counts), AggregateOne(daily_counts, Head(all_counts)))

EmptyMap == [k \in {} |-> <<None, None, None>>]

\* Whether an addition of the aggregation leaves i32: `w + v` of a count's
\* in and out (main.rs:608, 630) or `*w += v` of a running sum (main.rs:618,
\* 640, 655).
BothOverflow(a, b) == IsSome(a) /\ IsSome(b) /\ Overflows(Unwrap(a), Unwrap(b))
OneOverflows(daily_counts, count) ==
    LET key == <<count.location_id, DateOf(count.datetime)>>
        old == IF key \in DOMAIN daily_counts
               THEN daily_counts[key] ELSE <<None, None, None>>
    IN  \/ BothOverflow(count.ped_in, count.ped_out)
        \/ BothOverflow(count.bike_in, count.bike_out)
        \/ BothOverflow(old[1], InOutTotal(count.ped_in, count.ped_out))
        \/ BothOverflow(old[2], InOutTotal(count.bike_in, count.bike_out))
        \/ BothOverflow(old[3], count.total)

RECURSIVE AggregateOverflows(_, _)
AggregateOverflows(all_counts, daily_counts) ==
    IF all_counts = << >> THEN FALSE
    ELSE \/ OneOverflows(daily_counts, Head(all_counts))
         \/ AggregateOverflows(Tail(all_counts),
                               AggregateOne(daily_counts, Head(all_counts)))

\* AggregatedCount::new (main.rs:116-130)
AggregatedCountNew(location_id, date, total_ped, total_bike, total) ==
    [location_id |-> location_id, date |-> date,
     total_ped |-> total_ped, total_bike |-> total_bike, total |-> total]

\* The entries of the map as AggregatedCounts (main.rs:663-672); a HashMap
\* iterates in an unspecified order, so the Vec is any ordering of this set.
FlattenSet(daily_counts) ==
    {AggregatedCountNew(k[1], k[2], daily_counts[k][1], daily_counts[k][2],
                        daily_counts[k][3]) : k \in DOMAIN daily_counts}

Orderings(S) ==
    {q \in [1..Cardinality(S) -> S] : \A i, j \in 1..Cardinality(S) : i # j => q[i] # q[j]}

(***************************************************************************)
(* Input files.  A field is a sequence of characters; a data record has    *)
(* 97 fields after the timestamp when it is as long as the header.         *)
(***************************************************************************)
Time(mon, day, year, hour, minute, ampm) ==
    [mon |-> mon, day |-> day, year |-> year, hour |-> hour, minute |-> minute, ampm |-> ampm]

\* cells: a function from some columns to their text; every other column is empty.
Fields(n, cells) == [i \in 1..n |-> IF i \in DOMAIN cells THEN cells[i] ELSE << >>]

\* "May 6, 2023 12:30 PM" with the slice [10, 3, 2, 4, 1] for the first station
CellsA == (1 :> <<"1", "0">>) @@ (2 :> <<"3">>) @@ (3 :> <<"2">>) @@ (4 :> <<"4">>)
          @@ (5 :> <<"1">>) @@ (6 :> <<"7">>) @@ (7 :> <<"-", "2">>) @@ (9 :> <<"x">>)
          @@ (46 :> <<"5">>) @@ (47 :> <<"2">>) @@ (48 :> <<"3">>)
\* a row whose first station has the largest total and pedestrian count
CellsMax == (1 :> <<"2", "1", "4", "7", "4", "8", "3", "6", "4", "7">>)
            @@ (2 :> <<"2", "1", "4", "7", "4", "8", "3", "6", "4", "7">>)
            @@ (3 :> <<"1">>) @@ (4 :> <<"5">>)
\* a row with absent and unparseable fields
CellsB == (1 :> <<"6">>) @@ (3 :> <<"+", "4">>) @@ (4 :> <<" ", "1">>) @@ (5 :> <<"0">>)
          @@ (8 :> <<"2", "1", "4", "7", "4", "8", "3", "6", "4", "8">>)
          @@ (10 :> <<"9">>) @@ (96 :> <<"1">>)

NCols == Len(EXPECTED_HEADER) - 1

Row(time, cells) == [readable |-> TRUE, time |-> time, fields |-> Fields(NCols, cells)]

RowA == Row(Time("May", 6, 2023, 12, 30, "PM"), CellsA)
RowB == Row(Time("May", 6, 2023, 12, 45, "PM"), CellsB)
RowC == Row(Time("May", 7, 2023, 12, 15, "AM"), CellsA)
RowD == Row(Time("May", 6, 1923, 12, 30, "PM"), CellsB)
RowMax == Row(Time("May", 6, 2023, 1, 0, "PM"), CellsMax)
RowBadTime == Row(Time("Feb", 30, 2023, 1, 0, "PM"), CellsA)
RowBadMonth == Row(Time("Mai", 6, 2023, 1, 0, "PM"), CellsA)
RowShort == [readable |-> TRUE, time |-> Time("May", 6, 2023, 1, 0, "PM"),
             fields |-> Fields(NCols - 1, CellsA)]
RowLong == [readable |-> TRUE, time |-> Time("May", 6, 2023, 1, 0, "PM"),
            fields |-> Fields(NCols + 1, CellsA)]
RowUnreadable == [readable |-> FALSE, time |-> Time("May", 6, 2023, 1, 0, "PM"),
                  fields |-> << >>]

GoodRows == {RowA, RowB, RowC, RowD, RowMax}
BadRows == {RowBadTime, RowBadMonth, RowShort, RowLong, RowUnreadable}

HeaderOk == [kind |-> "record", fields |-> EXPECTED_HEADER]
HeaderOneField == [kind |-> "record",
                   fields |-> [EXPECTED_HEADER EXCEPT ![47] = "Pine St Bike Lanes"]]
HeaderCase == [kind |-> "record", fields |-> [EXPECTED_HEADER EXCEPT ![1] = "time"]]
HeaderShort == [kind |-> "record",
                fields |-> SubSeq(EXPECTED_HEADER, 1, Len(EXPECTED_HEADER) - 1)]
HeaderAbsent == [kind |-> "absent", fields |-> << >>]
HeaderUnreadable == [kind |-> "unreadable", fields |-> << >>]
BadHeaders == {HeaderOneField, HeaderCase, HeaderShort, HeaderAbsent, HeaderUnreadable}

SeqsUpTo(S, n) == UNION {[1..k -> S] : k \in 0..n}

\* export.csv; opened: File::open has returned it to a run (main.rs:294).
File(header, rows) == [present |-> TRUE, opened |-> FALSE, header |-> header, rows |-> rows]
NoFile == [present |-> FALSE, opened |-> FALSE, header |-> HeaderAbsent, rows |-> << >>]

\* Files of the poll-loop specification: two dates; one date a century
\* earlier than RowA's, with the same DD-MON-YY text; two rows of one date; no
\* data row; two rows of one date whose sums leave i32; and files the decode
\* stage rejects at the first or the second row or at the header.
MainFiles ==
    {File(HeaderOk, <<RowA, RowC>>), File(HeaderOk, <<RowD>>), File(HeaderOk, <<RowA, RowB>>),
     File(HeaderOk, << >>), File(HeaderOk, <<RowMax, RowA>>),
     File(HeaderOk, <<RowA, RowBadTime>>), File(HeaderOk, <<RowShort, RowA>>),
     File(HeaderOk, <<RowUnreadable>>),
     File(HeaderOneField, <<RowA>>), File(HeaderAbsent, << >>)}

\* The layout entries whose records the load coordinator carries.
LoadLayout == SubSeq(LAYOUT, 1, MaxEntries)

(***************************************************************************)
(* State of the service.                                                   *)
(***************************************************************************)
VARIABLES
    file,           \* export.csv: NoFile or its content
    runs,           \* number of files that have arrived
    pc,             \* where the main thread is
    phase,          \* "del", "ind" or "agg": the phase the main thread runs
    dates,          \* the run's sorted, deduplicated date texts
    all_counts,     \* the run's IndividualCounts
    flattened_daily_counts, \* the run's AggregatedCounts
    spawned,        \* receiver threads spawned in this phase
    joined,         \* receiver handles joined in this phase
    toSend,         \* what the sender thread of this phase has still to send
    chan,           \* per run: the channel of its latest phase [q, open]
    workers,        \* bag of receiver threads [gen, phase, pc, item, val, pending, commits]
    TBLCOUNTDATA,   \* committed rows of the individual table
    TBLHEADER,      \* committed rows of the aggregated table
    faults,         \* failures injected so far
    log,            \* sink calls of the latest run
    handled,        \* per phase and item of the latest run: times received, times
                    \* deleted from TBLCOUNTDATA and from TBLHEADER, times done
    before,         \* the two tables when the latest run began
    outcome,        \* how the latest run ended
    rolledBack,     \* identities of the inserts that were pending when their thread panicked
    dec,            \* the decode stage of the main thread
    reimport,       \* the previous run: whether it succeeded, its file, the tables it left
    call            \* a function of the program called on its own: [fn, arg, done, res]

vars == <<file, runs, pc, phase, dates, all_counts, flattened_daily_counts, spawned,
          joined, toSend, chan, workers, TBLCOUNTDATA, TBLHEADER, faults, log,
          handled, before, outcome, rolledBack, dec, reimport, call>>

Phases == <<"del", "ind", "agg">>
NoPending == [delC |-> {}, delH |-> {}, ins |-> {}]
\* Calls of the latest run by kind, as issued; `committed` counts per phase the
\* commits that returned Ok, `failed` the calls that returned Err and
\* `failedIn` holds the phases whose workers issued them.
EmptyLog == [pool |-> 0, checkouts |-> 0, deletes |-> 0, delCommits |-> 0,
             indInserts |-> 0, indCommits |-> 0, aggInserts |-> 0, aggCommits |-> 0,
             committed |-> [ph \in {"del", "ind", "agg"} |-> 0], failed |-> 0,
             failedIn |-> {}]
NoHandled ==
    [ph \in {"del", "ind", "agg"} |->
        [recv |-> << >>, delC |-> << >>, delH |-> << >>, done |-> << >>]]
Zeros(n) == [i \in 1..n |-> 0]

\* The rows of a table without the identities of their inserts, with multiplicity.
Strip(r) == [f \in (DOMAIN r) \ {"id"} |-> r[f]]
Data(table) ==
    [d \in {Strip(r) : r \in table} |-> Cardinality({r \in table : Strip(r) = d})]

\* Record of the previous run, kept to compare a reimport with it.
NoReimport == [ok |-> FALSE, header |-> HeaderAbsent, rows |-> << >>,
               C |-> Data({}), H |-> Data({}),
               same |-> FALSE, wasC |-> Data({}), wasH |-> Data({})]
RunFailed == reimport' = [reimport EXCEPT !.ok = FALSE, !.same = FALSE]
RunSucceeded ==
    reimport' = [ok |-> TRUE, header |-> file.header, rows |-> file.rows,
                 C |-> Data(TBLCOUNTDATA), H |-> Data(TBLHEADER),
                 same |-> reimport.ok /\ reimport.header = file.header
                          /\ reimport.rows = file.rows,
                 wasC |-> reimport.C, wasH |-> reimport.H]

\* The main thread is not decoding.
DecOff == [stage |-> "off", file |-> NoFile, pos |-> 0, dates |-> << >>,
           all_counts |-> << >>, daily_counts |-> EmptyMap, err |-> ""]

\* No function is called on its own.
NoCall == [fn |-> "none", arg |-> << >>, done |-> FALSE, res |-> << >>]

Init ==
    /\ call = NoCall
    /\ file = NoFile
    /\ runs = 0
    /\ pc = "poll"
    /\ phase = "del"
    /\ dates = << >>
    /\ all_counts = << >>
    /\ flattened_daily_counts = << >>
    /\ spawned = 0
    /\ joined = 0
    /\ toSend = << >>
    /\ chan = [r \in 1..(MaxRuns + 1) |-> [q |-> << >>, open |-> FALSE]]
    /\ workers = EmptyBag
    /\ TBLCOUNTDATA = {}
    /\ TBLHEADER = {}
    /\ faults = 0
    /\ log = EmptyLog
    /\ handled = NoHandled
    /\ before = [C |-> {}, H |-> {}]
    /\ outcome = "none"
    /\ rolledBack = {}
    /\ reimport = NoReimport
    /\ dec = DecOff

mainVars == <<pc, phase, dates, all_counts, flattened_daily_counts, spawned, joined>>
sinkVars == <<TBLCOUNTDATA, TBLHEADER>>
loadVars == <<file, runs, pc, phase, dates, all_counts, flattened_daily_counts, spawned,
              joined, toSend, chan, workers, TBLCOUNTDATA, TBLHEADER, faults, log,
              handled, before, outcome, rolledBack, reimport, call>>

\* A receiver thread no handle of which will be joined any more.
Detached(w) == w.gen # runs \/ pc \in {"poll", "crashed"}

\* Threads that ended and that nothing waits for leave the state.
Put(bag, w) ==
    IF w.pc \in {"done", "panicked"} /\ Detached(w) THEN bag ELSE bag (+) SetToBag({w})
Replace(bag, old, new) == Put(bag (-) SetToBag({old}), new)

\* remove_csv (main.rs:270-274)
RemoveCsv == file' = NoFile

\* A failure of the sink or of the pool may be injected.
MayFail == faults < MaxFaults
Outcomes == IF MayFail THEN {TRUE, FALSE} ELSE {TRUE}
Fault(ok) == faults' = IF ok THEN faults ELSE faults + 1

(***************************************************************************)
(* Environment: one of `files` arrives, at most `limit` times.             *)
(***************************************************************************)
FileArrives(limit, files) ==
    /\ ~file.present
    /\ pc = "poll"
    /\ runs < limit
    /\ \E f \in files : file' = f
    /\ UNCHANGED <<runs, mainVars, toSend, chan, workers, sinkVars, faults, log,
                   handled, before, outcome, rolledBack, dec, reimport, call>>

(***************************************************************************)
(* The main thread (main.rs:292-914).                                      *)
(***************************************************************************)
\* main.rs:294-311: File::open succeeds, the run begins.
OpenFile ==
    /\ pc = "poll"
    /\ file.present
    /\ file' = [file EXCEPT !.opened = TRUE]
    /\ runs' = runs + 1
    /\ log' = EmptyLog
    /\ handled' = NoHandled
    /\ before' = [C |-> TBLCOUNTDATA, H |-> TBLHEADER]
    /\ outcome' = "running"
    /\ dec' = [DecOff EXCEPT !.stage = "header", !.file = file]
    /\ pc' = "decode"
    /\ dates' = << >>
    /\ all_counts' = << >>
    /\ flattened_daily_counts' = << >>
    /\ UNCHANGED <<phase, spawned, joined, toSend, chan, workers, sinkVars, faults,
                   rolledBack, reimport, call>>

\* The Err arms of the decode stage, which all end in remove_csv and
\* `continue 'mainloop`, leave the stage rejected.
DecReject(e) ==
    dec' = [dec EXCEPT !.stage = "rejected", !.err = e, !.dates = << >>, !.all_counts = << >>]

\* main.rs:313-334: the header record is read and compared.
DecHeader ==
    /\ pc = "decode"
    /\ dec.stage = "header"
    /\ LET h == CheckHeader(dec.file.header)
       IN  IF h = "ok" THEN dec' = [dec EXCEPT !.stage = "rows", !.pos = 1]
           ELSE DecReject(h)
    /\ UNCHANGED loadVars

\* As DecRow, but a row that does not decode is logged and skipped.
DecRowSkipsBadRow(layout) ==
    /\ pc = "decode"
    /\ dec.stage = "rows"
    /\ dec.pos <= Len(dec.file.rows)
    /\ LET r == DecodeRow(dec.file.rows[dec.pos], layout)
       IN  IF r.ok
           THEN dec' = [dec EXCEPT !.pos = @ + 1, !.dates = Append(@, r.date),
                                   !.all_counts = @ \o r.counts]
           ELSE dec' = [dec EXCEPT !.pos = @ + 1]
    /\ UNCHANGED loadVars

\* main.rs:347-589: one iteration of the row loop.
DecRow(layout) ==
    /\ pc = "decode"
    /\ dec.stage = "rows"
    /\ dec.pos <= Len(dec.file.rows)
    /\ LET r == DecodeRow(dec.file.rows[dec.pos], layout)
       IN  IF r.ok
           THEN dec' = [dec EXCEPT !.pos = @ + 1, !.dates = Append(@, r.date),
                                   !.all_counts = @ \o r.counts]
           ELSE DecReject(r.err)
    /\ UNCHANGED loadVars

\* main.rs:591-660: the records are summed by location and date.
DecAggregate ==
    /\ pc = "decode"
    /\ dec.stage = "rows"
    /\ dec.pos > Len(dec.file.rows)
    /\ dec' = [dec EXCEPT !.stage = "aggregated",
                          !.daily_counts = Aggregate(dec.all_counts, EmptyMap)]
    /\ UNCHANGED loadVars

\* main.rs:608-655 in a build with overflow checks: an addition that leaves
\* i32 panics on the main thread and the process ends with every thread, the
\* file still in place.
DecAggregatePanics ==
    /\ pc = "decode"
    /\ dec.stage = "rows"
    /\ dec.pos > Len(dec.file.rows)
    /\ AggregateOverflows(dec.all_counts, EmptyMap)
    /\ dec' = [dec EXCEPT !.stage = "panicked"]
    /\ pc' = "crashed"
    /\ workers' = EmptyBag
    /\ outcome' = "MainPanic"
    /\ RunFailed
    /\ UNCHANGED <<file, runs, phase, dates, all_counts, flattened_daily_counts,
                   spawned, joined, toSend, chan, sinkVars, faults, log, handled,
                   before, rolledBack, call>>

\* As DecSortDedup, but the list is not sorted before dedup.
DecDedupUnsorted ==
    /\ pc = "decode"
    /\ dec.stage = "aggregated"
    /\ dec' = [dec EXCEPT !.stage = "done", !.dates = Dedup(@)]
    /\ UNCHANGED loadVars

\* main.rs:674-675: dates.sort(); dates.dedup();
DecSortDedup ==
    /\ pc = "decode"
    /\ dec.stage = "aggregated"
    /\ dec' = [dec EXCEPT !.stage = "done", !.dates = Dedup(SortDates(@))]
    /\ UNCHANGED loadVars

\* error!, remove_csv(), continue 'mainloop of a rejected file.
RejectFile ==
    /\ pc = "decode"
    /\ dec.stage = "rejected"
    /\ outcome' = dec.err
    /\ RemoveCsv
    /\ pc' = "poll"
    /\ dec' = DecOff
    /\ RunFailed
    /\ UNCHANGED <<runs, phase, dates, all_counts, flattened_daily_counts, spawned,
                   joined, toSend, chan, workers, sinkVars, faults, log,
                   handled, before, rolledBack, call>>

\* The decoded file goes on to the load coordinator; the map is flattened
\* (main.rs:662-672) in the order the HashMap happens to iterate.
AcceptFile ==
    /\ pc = "decode"
    /\ dec.stage = "done"
    /\ dates' = dec.dates
    /\ all_counts' = dec.all_counts
    /\ flattened_daily_counts' \in Orderings(FlattenSet(dec.daily_counts))
    /\ pc' = "pool"
    /\ dec' = DecOff
    /\ UNCHANGED <<file, runs, phase, spawned, joined, toSend, chan, workers,
                   sinkVars, faults, log, handled, before, outcome,
                   rolledBack, reimport, call>>

\* main.rs:677-688: PoolBuilder::build
BuildPool(ok) ==
    /\ pc = "pool"
    /\ Fault(ok)
    /\ log' = [log EXCEPT !.pool = 1]
    /\ IF ok
       THEN /\ pc' = "start"
            /\ phase' = "del"
            /\ UNCHANGED <<file, outcome, reimport>>
       ELSE /\ pc' = "poll"
            /\ RemoveCsv
            /\ outcome' = "PoolError"
            /\ RunFailed
            /\ UNCHANGED phase
    /\ UNCHANGED <<runs, dates, all_counts, flattened_daily_counts, spawned, joined,
                   toSend, chan, workers, sinkVars, handled, before,
                   rolledBack, dec, call>>

Indexed(list) == [i \in 1..Len(list) |-> [idx |-> i, val |-> list[i]]]
PhaseItems(ph) ==
    IF ph = "del" THEN dates ELSE IF ph = "ind" THEN all_counts ELSE flattened_daily_counts

\* main.rs:690-704, 773-787, 838-852: the channel is created and the sender
\* thread spawned with the items of the phase.
StartPhase ==
    /\ pc = "start"
    /\ chan' = [chan EXCEPT ![runs] = [q |-> << >>, open |-> TRUE]]
    /\ toSend' = Indexed(PhaseItems(phase))
    /\ handled' = [handled EXCEPT ![phase] = [recv |-> Zeros(Len(PhaseItems(phase))),
                                               delC |-> Zeros(Len(PhaseItems(phase))),
                                               delH |-> Zeros(Len(PhaseItems(phase))),
                                               done |-> Zeros(Len(PhaseItems(phase)))]]
    /\ spawned' = 0
    /\ joined' = 0
    /\ pc' = "spawn"
    /\ UNCHANGED <<file, runs, phase, dates, all_counts, flattened_daily_counts,
                   workers, sinkVars, faults, log, before, rolledBack, dec,
                   reimport, outcome, call>>

NewWorker == [gen |-> runs, phase |-> phase, pc |-> "recv", item |-> 0, val |-> << >>,
              pending |-> NoPending, commits |-> 0]

\* main.rs:711-751, 794-816, 859-881: pool.get().unwrap() and thread::spawn
Spawn ==
    /\ pc = "spawn"
    /\ spawned < NUM_THREADS
    /\ workers' = workers (+) SetToBag({NewWorker})
    /\ spawned' = spawned + 1
    /\ log' = [log EXCEPT !.checkouts = @ + 1]
    /\ pc' = IF spawned + 1 = NUM_THREADS THEN "join_sender" ELSE "spawn"
    /\ UNCHANGED <<file, runs, phase, dates, all_counts, flattened_daily_counts,
                   joined, toSend, chan, sinkVars, faults, handled, before,
                   rolledBack, dec, reimport, outcome, call>>

\* pool.get() returns Err: unwrap panics on the main thread and the process
\* ends with every thread, the file still in place.
CheckoutPanics ==
    /\ pc = "spawn"
    /\ spawned < NUM_THREADS
    /\ MayFail
    /\ faults' = faults + 1
    /\ pc' = "crashed"
    /\ workers' = EmptyBag
    /\ toSend' = << >>
    /\ outcome' = "MainPanic"
    /\ RunFailed
    /\ UNCHANGED <<file, runs, phase, dates, all_counts, flattened_daily_counts,
                   spawned, joined, chan, sinkVars, log, handled, before,
                   rolledBack, dec, call>>

\* main.rs:754-761, 819-826, 884-891: the sender thread has ended (it never panics)
JoinSender ==
    /\ pc = "join_sender"
    /\ toSend = << >>
    /\ ~chan[runs].open
    /\ pc' = "join_workers"
    /\ UNCHANGED <<file, runs, phase, dates, all_counts,
                   flattened_daily_counts, spawned, joined, toSend,
                   chan, workers, sinkVars, faults, log, handled,
                   before, rolledBack, dec, reimport, outcome, call>>

NextPhase(ph) == IF ph = "del" THEN "ind" ELSE "agg"

\* As JoinOk, but the phase is over once the first handle is joined.
JoinOkFirstHandle ==
    /\ pc = "join_workers"
    /\ \E w \in BagToSet(workers) :
          /\ w.gen = runs
          /\ w.pc = "done"
          /\ workers' = workers (-) SetToBag({w})
    /\ joined' = joined + 1
    /\ IF phase = "agg"
       THEN pc' = "finish" /\ UNCHANGED phase
       ELSE pc' = "start" /\ phase' = NextPhase(phase)
    /\ UNCHANGED <<file, runs, dates, all_counts, flattened_daily_counts, spawned,
                   toSend, chan, sinkVars, faults, log, handled, before,
                   rolledBack, dec, reimport, outcome, call>>

\* handle.join() returns Ok (main.rs:762-771, 827-836, 892-901)
JoinOk ==
    /\ pc = "join_workers"
    /\ \E w \in BagToSet(workers) :
          /\ w.gen = runs
          /\ w.pc = "done"
          /\ workers' = workers (-) SetToBag({w})
    /\ joined' = joined + 1
    /\ IF joined + 1 < NUM_THREADS
       THEN UNCHANGED <<pc, phase>>
       ELSE IF phase = "agg"
            THEN pc' = "finish" /\ UNCHANGED phase
            ELSE pc' = "start" /\ phase' = NextPhase(phase)
    /\ UNCHANGED <<file, runs, dates, all_counts, flattened_daily_counts, spawned,
                   toSend, chan, sinkVars, faults, log, handled, before,
                   rolledBack, dec, reimport, outcome, call>>

\* As JoinPanicked, but the Err of the join is dropped and the next handle is
\* joined.
JoinPanickedGoesOn ==
    /\ pc = "join_workers"
    /\ \E w \in BagToSet(workers) :
          /\ w.gen = runs
          /\ w.pc = "panicked"
          /\ workers' = workers (-) SetToBag({w})
    /\ joined' = joined + 1
    /\ IF joined + 1 < NUM_THREADS
       THEN UNCHANGED <<pc, phase>>
       ELSE IF phase = "agg"
            THEN pc' = "finish" /\ UNCHANGED phase
            ELSE pc' = "start" /\ phase' = NextPhase(phase)
    /\ UNCHANGED <<file, runs, dates, all_counts, flattened_daily_counts, spawned,
                   toSend, chan, sinkVars, faults, log, handled, before,
                   rolledBack, dec, reimport, outcome, call>>

\* handle.join() returns Err: the run ends, the handles not yet joined are dropped
\* and their threads keep running.
JoinPanicked ==
    /\ pc = "join_workers"
    /\ \E w \in BagToSet(workers) : w.gen = runs /\ w.pc = "panicked"
    /\ workers' = [w \in {x \in BagToSet(workers) : x.pc \notin {"done", "panicked"}}
                     |-> workers[w]]
    /\ RemoveCsv
    /\ pc' = "poll"
    /\ outcome' = "WorkerPanic"
    /\ RunFailed
    /\ UNCHANGED <<runs, phase, dates, all_counts, flattened_daily_counts, spawned,
                   joined, toSend, chan, sinkVars, faults, log, handled,
                   before, rolledBack, dec, call>>

\* main.rs:903-913: the summary is logged and the file removed.
Finish ==
    /\ pc = "finish"
    /\ outcome' = "success"
    /\ RunSucceeded
    /\ RemoveCsv
    /\ pc' = "poll"
    /\ UNCHANGED <<runs, phase, dates, all_counts, flattened_daily_counts, spawned,
                   joined, toSend, chan, workers, sinkVars, faults, log,
                   handled, before, rolledBack, dec, call>>

(***************************************************************************)
(* The sender thread of a phase (main.rs:694-704, 777-787, 842-852).       *)
(***************************************************************************)
Send ==
    /\ toSend # << >>
    /\ chan' = [chan EXCEPT ![runs].q = Append(@, Head(toSend))]
    /\ toSend' = Tail(toSend)
    /\ UNCHANGED <<file, runs, mainVars, workers, sinkVars, faults, log, handled,
                   before, rolledBack, dec, reimport, outcome, call>>

\* The closure returns and tx is dropped: the channel is disconnected.
SenderExit ==
    /\ pc \in {"spawn", "join_sender"}
    /\ toSend = << >>
    /\ chan[runs].open
    /\ chan' = [chan EXCEPT ![runs].open = FALSE]
    /\ UNCHANGED <<file, runs, mainVars, toSend, workers, sinkVars, faults, log,
                   handled, before, rolledBack, dec, reimport, outcome, call>>

(***************************************************************************)
(* The sink.  A row carries the identity <<run, phase, item>> of the insert *)
(* that made it, so that equal rows inserted twice are two rows.  A        *)
(* connection sees committed rows; its own statements take effect at its   *)
(* commit and are rolled back when it is dropped without one.              *)
(***************************************************************************)
\* Timestamp::new(year, month, day, hour, minute, second, 0) (main.rs:922-930)
TimestampOf(dt) == [year |-> dt.year, month |-> dt.month, day |-> dt.day,
                    hour |-> dt.hour, minute |-> dt.minute, second |-> dt.second]
\* Timestamp::new(year, month, day, 0, 0, 0, 0) (main.rs:951-959)
TimestampOfDate(d) == [year |-> d.year, month |-> d.month, day |-> d.day,
                       hour |-> 0, minute |-> 0, second |-> 0]

\* insert_individual_count (main.rs:917-944)
CountDataRow(id, count) ==
    [id |-> id, locationid |-> count.location_id,
     countdate |-> TimestampOf(count.datetime),
     total |-> count.total, pedin |-> count.ped_in, pedout |-> count.ped_out,
     bikein |-> count.bike_in, bikeout |-> count.bike_out,
     counttime |-> TimestampOf(count.datetime)]

\* insert_aggregated_count (main.rs:946-970)
HeaderRow(id, count) ==
    [id |-> id, locationid |-> count.location_id,
     countdate |-> TimestampOfDate(count.date),
     totalped |-> count.total_ped, totalbike |-> count.total_bike, total |-> count.total]

\* delete from T where to_char(COUNTDATE, 'DD-MON-YY') = :1 (main.rs:720-736)
Matching(table, date) == {r \in table : ToCharDDMONYY(r.countdate) = date}

(***************************************************************************)
(* A receiver thread (main.rs:716-749, 798-815, 863-880).                  *)
(***************************************************************************)
Latest(w) == w.gen = runs

PhaseOf(field) ==
    IF field \in {"deletes", "delCommits"} THEN "del"
    ELSE IF field \in {"indInserts", "indCommits"} THEN "ind" ELSE "agg"
Count(ok, field) ==
    log' = [log EXCEPT ![field] = @ + 1, !.failed = IF ok THEN @ ELSE @ + 1,
                       !.failedIn = IF ok THEN @ ELSE @ \cup {PhaseOf(field)}]
CountCommit(w, ok, field) ==
    log' = [log EXCEPT ![field] = @ + 1, !.failed = IF ok THEN @ ELSE @ + 1,
                       !.failedIn = IF ok THEN @ ELSE @ \cup {PhaseOf(field)},
                       !.committed[w.phase] = IF ok THEN @ + 1 ELSE @]

\* .unwrap() on an Err: the thread panics; its connection is dropped with the
\* transaction open, which the sink rolls back.
Panicked(w) == [w EXCEPT !.pc = "panicked", !.pending = NoPending]
Rollback(w, ok) ==
    rolledBack' = IF ok THEN rolledBack ELSE rolledBack \cup {r.id : r \in w.pending.ins}

\* As Recv, but the item is left in the queue.
RecvPeeks(w) ==
    /\ w.pc = "recv"
    /\ chan[w.gen].q # << >>
    /\ LET m == Head(chan[w.gen].q)
       IN  /\ workers' = Replace(workers, w,
                [w EXCEPT !.pc = IF w.phase = "del" THEN "delete1" ELSE "insert",
                          !.item = m.idx, !.val = m.val])
           /\ handled' = IF Latest(w)
                         THEN [handled EXCEPT ![w.phase].recv[m.idx] = @ + 1]
                         ELSE handled
    /\ UNCHANGED <<file, runs, mainVars, toSend, chan, sinkVars, faults, log, before,
                   rolledBack, dec, reimport, outcome, call>>

\* receiver.recv() returns Ok(item)
Recv(w) ==
    /\ w.pc = "recv"
    /\ chan[w.gen].q # << >>
    /\ LET m == Head(chan[w.gen].q)
       IN  /\ workers' = Replace(workers, w,
                [w EXCEPT !.pc = IF w.phase = "del" THEN "delete1" ELSE "insert",
                          !.item = m.idx, !.val = m.val])
           /\ handled' = IF Latest(w)
                         THEN [handled EXCEPT ![w.phase].recv[m.idx] = @ + 1]
                         ELSE handled
    /\ chan' = [chan EXCEPT ![w.gen].q = Tail(@)]
    /\ UNCHANGED <<file, runs, mainVars, toSend, sinkVars, faults, log, before,
                   rolledBack, dec, reimport, outcome, call>>

\* As RecvDisconnected, but an insert thread that inserted nothing ends
\* without a commit.
RecvDisconnectedSkipsCommit(w) ==
    /\ w.pc = "recv"
    /\ chan[w.gen].q = << >>
    /\ ~chan[w.gen].open
    /\ workers' = Replace(workers, w,
                          [w EXCEPT !.pc = IF w.phase = "del" \/ w.pending.ins = {}
                                           THEN "done" ELSE "commit"])
    /\ UNCHANGED <<file, runs, mainVars, toSend, chan, sinkVars, faults, log, handled,
                   before, rolledBack, dec, reimport, outcome, call>>

\* receiver.recv() returns Err: the channel is empty and disconnected.
RecvDisconnected(w) ==
    /\ w.pc = "recv"
    /\ chan[w.gen].q = << >>
    /\ ~chan[w.gen].open
    /\ workers' = Replace(workers, w,
                          [w EXCEPT !.pc = IF w.phase = "del" THEN "done" ELSE "commit"])
    /\ UNCHANGED <<file, runs, mainVars, toSend, chan, sinkVars, faults, log, handled,
                   before, rolledBack, dec, reimport, outcome, call>>

\* delete from TBLCOUNTDATA (main.rs:720-727)
DeleteCountData(w, ok) ==
    /\ w.pc = "delete1"
    /\ Fault(ok)
    /\ Rollback(w, ok)
    /\ IF Latest(w) THEN Count(ok, "deletes") ELSE UNCHANGED log
    /\ workers' = Replace(workers, w,
          IF ok THEN [w EXCEPT !.pc = "delete2",
                               !.pending.delC = Matching(TBLCOUNTDATA, w.val)]
          ELSE Panicked(w))
    /\ handled' = IF Latest(w)
                  THEN [handled EXCEPT !["del"].delC[w.item] = @ + 1]
                  ELSE handled
    /\ UNCHANGED <<file, runs, mainVars, toSend, chan, sinkVars, before,
                   dec, reimport, outcome, call>>

\* delete from TBLHEADER (main.rs:729-736)
DeleteHeader(w, ok) ==
    /\ w.pc = "delete2"
    /\ Fault(ok)
    /\ Rollback(w, ok)
    /\ IF Latest(w) THEN Count(ok, "deletes") ELSE UNCHANGED log
    /\ workers' = Replace(workers, w,
          IF ok THEN [w EXCEPT !.pc = "delcommit",
                               !.pending.delH = Matching(TBLHEADER, w.val)]
          ELSE Panicked(w))
    /\ handled' = IF Latest(w)
                  THEN [handled EXCEPT !["del"].delH[w.item] = @ + 1]
                  ELSE handled
    /\ UNCHANGED <<file, runs, mainVars, toSend, chan, sinkVars, before,
                   dec, reimport, outcome, call>>

\* As DeleteCommit, but a failed commit is logged and issued again.
DeleteCommitRetries(w, ok) ==
    /\ w.pc = "delcommit"
    /\ Fault(ok)
    /\ UNCHANGED rolledBack
    /\ IF Latest(w) THEN CountCommit(w, ok, "delCommits") ELSE UNCHANGED log
    /\ IF ok
       THEN /\ TBLCOUNTDATA' = TBLCOUNTDATA \ w.pending.delC
            /\ TBLHEADER' = TBLHEADER \ w.pending.delH
            /\ workers' = Replace(workers, w,
                  [w EXCEPT !.pc = "recv", !.pending = NoPending, !.commits = @ + 1])
            /\ handled' = IF Latest(w)
                          THEN [handled EXCEPT !["del"].done[w.item] = @ + 1]
                          ELSE handled
       ELSE UNCHANGED <<workers, sinkVars, handled>>
    /\ UNCHANGED <<file, runs, mainVars, toSend, chan, before, dec, reimport,
                   outcome, call>>

\* conn.commit() of the delete loop (main.rs:738-747)
DeleteCommit(w, ok) ==
    /\ w.pc = "delcommit"
    /\ Fault(ok)
    /\ Rollback(w, ok)
    /\ IF Latest(w) THEN CountCommit(w, ok, "delCommits") ELSE UNCHANGED log
    /\ IF ok
       THEN /\ TBLCOUNTDATA' = TBLCOUNTDATA \ w.pending.delC
            /\ TBLHEADER' = TBLHEADER \ w.pending.delH
            /\ workers' = Replace(workers, w,
                  [w EXCEPT !.pc = "recv", !.pending = NoPending, !.commits = @ + 1])
            /\ handled' = IF Latest(w)
                          THEN [handled EXCEPT !["del"].done[w.item] = @ + 1]
                          ELSE handled
       ELSE /\ workers' = Replace(workers, w, Panicked(w))
            /\ UNCHANGED <<sinkVars, handled>>
    /\ UNCHANGED <<file, runs, mainVars, toSend, chan, before, dec, reimport,
                   outcome, call>>

\* As Insert, but a failed insert is logged and the thread goes on to the
\* next record.
InsertSkipsFailure(w, ok) ==
    /\ w.pc = "insert"
    /\ Fault(ok)
    /\ Rollback(w, ok)
    /\ IF Latest(w)
       THEN Count(ok, IF w.phase = "ind" THEN "indInserts" ELSE "aggInserts")
       ELSE UNCHANGED log
    /\ IF ok
       THEN /\ workers' = Replace(workers, w,
                  [w EXCEPT !.pc = "recv",
                            !.pending.ins = @ \cup
                               {IF w.phase = "ind"
                                THEN CountDataRow(<<w.gen, w.phase, w.item>>, w.val)
                                ELSE HeaderRow(<<w.gen, w.phase, w.item>>, w.val)}])
            /\ handled' = IF Latest(w)
                          THEN [handled EXCEPT ![w.phase].done[w.item] = @ + 1]
                          ELSE handled
       ELSE /\ workers' = Replace(workers, w, [w EXCEPT !.pc = "recv"])
            /\ UNCHANGED handled
    /\ UNCHANGED <<file, runs, mainVars, toSend, chan, sinkVars, before, dec,
                   reimport, outcome, call>>

\* As Insert, but the connection commits each statement as it is executed.
InsertAutoCommits(w, ok) ==
    /\ w.pc = "insert"
    /\ Fault(ok)
    /\ Rollback(w, ok)
    /\ IF Latest(w)
       THEN Count(ok, IF w.phase = "ind" THEN "indInserts" ELSE "aggInserts")
       ELSE UNCHANGED log
    /\ IF ok
       THEN /\ workers' = Replace(workers, w, [w EXCEPT !.pc = "recv"])
            /\ IF w.phase = "ind"
               THEN /\ TBLCOUNTDATA' = TBLCOUNTDATA \cup
                          {CountDataRow(<<w.gen, w.phase, w.item>>, w.val)}
                    /\ UNCHANGED TBLHEADER
               ELSE /\ TBLHEADER' = TBLHEADER \cup
                          {HeaderRow(<<w.gen, w.phase, w.item>>, w.val)}
                    /\ UNCHANGED TBLCOUNTDATA
            /\ handled' = IF Latest(w)
                          THEN [handled EXCEPT ![w.phase].done[w.item] = @ + 1]
                          ELSE handled
       ELSE /\ workers' = Replace(workers, w, Panicked(w))
            /\ UNCHANGED <<handled, sinkVars>>
    /\ UNCHANGED <<file, runs, mainVars, toSend, chan, before, dec,
                   reimport, outcome, call>>

\* As Insert, but a thread whose insert failed leaves its loop and commits
\* what it had inserted.
InsertFailureCommits(w, ok) ==
    /\ w.pc = "insert"
    /\ Fault(ok)
    /\ Rollback(w, ok)
    /\ IF Latest(w)
       THEN Count(ok, IF w.phase = "ind" THEN "indInserts" ELSE "aggInserts")
       ELSE UNCHANGED log
    /\ IF ok
       THEN /\ workers' = Replace(workers, w,
                  [w EXCEPT !.pc = "recv",
                            !.pending.ins = @ \cup
                               {IF w.phase = "ind"
                                THEN CountDataRow(<<w.gen, w.phase, w.item>>, w.val)
                                ELSE HeaderRow(<<w.gen, w.phase, w.item>>, w.val)}])
            /\ handled' = IF Latest(w)
                          THEN [handled EXCEPT ![w.phase].done[w.item] = @ + 1]
                          ELSE handled
       ELSE /\ workers' = Replace(workers, w, [w EXCEPT !.pc = "commit"])
            /\ UNCHANGED handled
    /\ UNCHANGED <<file, runs, mainVars, toSend, chan, sinkVars, before, dec,
                   reimport, outcome, call>>

\* insert_individual_count / insert_aggregated_count (main.rs:801-808, 866-873)
Insert(w, ok) ==
    /\ w.pc = "insert"
    /\ Fault(ok)
    /\ Rollback(w, ok)
    /\ IF Latest(w)
       THEN Count(ok, IF w.phase = "ind" THEN "indInserts" ELSE "aggInserts")
       ELSE UNCHANGED log
    /\ IF ok
       THEN /\ workers' = Replace(workers, w,
                  [w EXCEPT !.pc = "recv",
                            !.pending.ins = @ \cup
                               {IF w.phase = "ind"
                                THEN CountDataRow(<<w.gen, w.phase, w.item>>, w.val)
                                ELSE HeaderRow(<<w.gen, w.phase, w.item>>, w.val)}])
            /\ handled' = IF Latest(w)
                          THEN [handled EXCEPT ![w.phase].done[w.item] = @ + 1]
                          ELSE handled
       ELSE /\ workers' = Replace(workers, w, Panicked(w))
            /\ UNCHANGED handled
    /\ UNCHANGED <<file, runs, mainVars, toSend, chan, sinkVars, before, dec,
                   reimport, outcome, call>>

\* conn.commit() after the insert loop (main.rs:811-814, 876-879)
Commit(w, ok) ==
    /\ w.pc = "commit"
    /\ Fault(ok)
    /\ Rollback(w, ok)
    /\ IF Latest(w)
       THEN CountCommit(w, ok, IF w.phase = "ind" THEN "indCommits" ELSE "aggCommits")
       ELSE UNCHANGED log
    /\ IF ok
       THEN /\ IF w.phase = "ind"
               THEN TBLCOUNTDATA' = TBLCOUNTDATA \cup w.pending.ins /\ UNCHANGED TBLHEADER
               ELSE TBLHEADER' = TBLHEADER \cup w.pending.ins /\ UNCHANGED TBLCOUNTDATA
            /\ workers' = Replace(workers, w,
                  [w EXCEPT !.pc = "done", !.pending = NoPending, !.commits = @ + 1])
       ELSE /\ workers' = Replace(workers, w, Panicked(w))
            /\ UNCHANGED sinkVars
    /\ UNCHANGED <<file, runs, mainVars, toSend, chan, handled, before, dec,
                   reimport, outcome, call>>

Program ==
    \/ OpenFile
    \/ DecHeader
    \/ DecRow(LoadLayout)
    \/ DecAggregate
    \/ DecAggregatePanics
    \/ DecSortDedup
    \/ RejectFile
    \/ AcceptFile
    \/ \E ok \in Outcomes : BuildPool(ok)
    \/ StartPhase
    \/ Spawn
    \/ CheckoutPanics
    \/ JoinSender
    \/ JoinOk
    \/ JoinPanicked
    \/ Finish
    \/ Send
    \/ SenderExit
    \/ \E w \in BagToSet(workers) : Recv(w)
    \/ \E w \in BagToSet(workers) : RecvDisconnected(w)
    \/ \E w \in BagToSet(workers), ok \in Outcomes : DeleteCountData(w, ok)
    \/ \E w \in BagToSet(workers), ok \in Outcomes : DeleteHeader(w, ok)
    \/ \E w \in BagToSet(workers), ok \in Outcomes : DeleteCommit(w, ok)
    \/ \E w \in BagToSet(workers), ok \in Outcomes : Insert(w, ok)
    \/ \E w \in BagToSet(workers), ok \in Outcomes : Commit(w, ok)

Next == FileArrives(MaxRuns, MainFiles) \/ Program

Spec == Init /\ [][Next]_vars

\* The same service with one more arrival, of a file of one row, of a file of
\* one row whose pedestrian sum leaves i32 or of a file without header.
LongFiles ==
    {File(HeaderOk, <<RowA>>), File(HeaderOk, <<RowMax>>), File(HeaderAbsent, << >>)}
NextLong == FileArrives(MaxRuns + 1, LongFiles) \/ Program

SpecLong == Init /\ [][NextLong]_vars

\* The service with DateRuns arrivals, of a file of three rows where a row of
\* another date stands between two rows of one date, of a file whose rows are
\* in descending order of date, of a file of two dates a century apart, of a
\* file whose pedestrian sum leaves i32, of a file whose second row has no
\* valid time or of a file without header.
DateRuns == 1
DateFiles ==
    {File(HeaderOk, <<RowA, RowC, RowB>>), File(HeaderOk, <<RowC, RowA>>),
     File(HeaderOk, <<RowD, RowA>>), File(HeaderOk, <<RowMax>>),
     File(HeaderOk, <<RowA, RowBadTime>>), File(HeaderAbsent, << >>)}
NextDates == FileArrives(DateRuns, DateFiles) \/ Program

SpecDates == Init /\ [][NextDates]_vars

\* The service of DateRuns arrivals of the files of DateFiles where a thread
\* that can take a step is eventually scheduled: the sink calls return, and
\* no arrival of a file is required.
NextFair == FileArrives(DateRuns, DateFiles) \/ Program

SpecFair == Init /\ [][NextFair]_vars /\ WF_vars(Program)

(***************************************************************************)
(* The decode stage alone over the whole LAYOUT, for files drawn from      *)
(* every header and every sequence of at most MaxRows sample rows.         *)
(***************************************************************************)
DecodeFiles ==
    {File(h, rows) : h \in {HeaderOk} \cup (BadHeaders \ {HeaderAbsent}),
                     rows \in SeqsUpTo(GoodRows \cup BadRows, MaxRows)}
    \cup {File(HeaderAbsent, << >>)}

InitDecode ==
    /\ \E f \in DecodeFiles :
          /\ file = [f EXCEPT !.opened = TRUE]
          /\ dec = [DecOff EXCEPT !.stage = "header", !.file = f]
    /\ runs = 1
    /\ pc = "decode"
    /\ phase = "del"
    /\ dates = << >>
    /\ all_counts = << >>
    /\ flattened_daily_counts = << >>
    /\ spawned = 0
    /\ joined = 0
    /\ toSend = << >>
    /\ chan = [r \in 1..(MaxRuns + 1) |-> [q |-> << >>, open |-> FALSE]]
    /\ workers = EmptyBag
    /\ TBLCOUNTDATA = {}
    /\ TBLHEADER = {}
    /\ faults = 0
    /\ log = EmptyLog
    /\ handled = NoHandled
    /\ before = [C |-> {}, H |-> {}]
    /\ outcome = "running"
    /\ rolledBack = {}
    /\ reimport = NoReimport
    /\ call = NoCall

NextDecode ==
    \/ DecHeader
    \/ DecRow(LAYOUT)
    \/ DecAggregate
    \/ DecAggregatePanics
    \/ DecSortDedup

SpecDecode == InitDecode /\ [][NextDecode]_vars

(***************************************************************************)
(* Functions of the program called on their own.  The service is not      *)
(* running; `call` holds the function, its argument and, once the call was *)
(* made, its result.                                                       *)
(***************************************************************************)
serviceVars == <<file, runs, pc, phase, dates, all_counts, flattened_daily_counts,
                 spawned, joined, toSend, chan, workers, TBLCOUNTDATA, TBLHEADER,
                 faults, log, handled, before, outcome, rolledBack, dec, reimport>>

Quiet ==
    /\ file = NoFile
    /\ runs = 0
    /\ pc = "poll"
    /\ phase = "del"
    /\ dates = << >>
    /\ all_counts = << >>
    /\ flattened_daily_counts = << >>
    /\ spawned = 0
    /\ joined = 0
    /\ toSend = << >>
    /\ chan = [r \in 1..(MaxRuns + 1) |-> [q |-> << >>, open |-> FALSE]]
    /\ workers = EmptyBag
    /\ TBLCOUNTDATA = {}
    /\ TBLHEADER = {}
    /\ faults = 0
    /\ log = EmptyLog
    /\ handled = NoHandled
    /\ before = [C |-> {}, H |-> {}]
    /\ outcome = "none"
    /\ rolledBack = {}
    /\ reimport = NoReimport
    /\ dec = DecOff

\* Slices of every length up to MaxSlice of absent and present fields, with
\* every combination of the two flags.
SliceValues == {None, Some(3)}
SliceArgs ==
    [counts : SeqsUpTo(SliceValues, MaxSlice), ped : BOOLEAN, bike : BOOLEAN]
SliceTime == ParseDateTime(RowA.time).val

InitCount ==
    /\ Quiet
    /\ \E a \in SliceArgs : call = [fn |-> "new", arg |-> a, done |-> FALSE, res |-> << >>]

\* IndividualCount::new(16, datetime, counts, ped, bike)
CallNew ==
    /\ call.fn = "new"
    /\ ~call.done
    /\ call' = [call EXCEPT !.done = TRUE,
                            !.res = IndividualCountNew(16, SliceTime, call.arg.counts,
                                                       call.arg.ped, call.arg.bike)]
    /\ UNCHANGED serviceVars

NextCount == CallNew

SpecCount == InitCount /\ [][NextCount]_vars

(***************************************************************************)
(* Properties.                                                             *)
(***************************************************************************)
\* The receiver threads of the latest run that are in phase ph and have not ended.
Running(ph) ==
    {w \in BagToSet(workers) : Latest(w) /\ w.phase = ph /\ w.pc \notin {"done", "panicked"}}

\* C1: within a run no insert, individual or aggregated, is issued before
\* both deletes and the commit of every distinct date of the run have
\* completed: once an insert of the run was issued, every date was received,
\* deleted from both tables and committed, and no delete thread of the run is
\* still at work.
C1_DeleteBarrier ==
    (log.indInserts + log.aggInserts > 0) =>
        /\ Len(handled["del"].done) = Len(dates)
        /\ \A i \in 1..Len(dates) : handled["del"].done[i] >= 1
        /\ log.deletes >= 2 * Len(dates)
        /\ log.committed["del"] >= Len(dates)
        /\ Running("del") = {}

\* An insert of a run of two dates has been issued.
C1_Witness == log.indInserts > 0 /\ Len(dates) = 2

\* C2 as stated: when a delete, insert or commit call of a run has failed and
\* the run was aborted, both tables hold what they held when the run began.
C2_Original ==
    outcome = "WorkerPanic" => TBLCOUNTDATA = before.C /\ TBLHEADER = before.H

\* C2 as amended: the inserts a thread had issued and not committed when one
\* of its calls failed are never committed, and a run one call of which
\* failed is never reported successful.  (What the other threads of the run
\* committed stays.)
C2_NoCommitByFailedWorker ==
    /\ \A r \in TBLCOUNTDATA \cup TBLHEADER : r.id \notin rolledBack
    /\ log.failed > 0 => outcome # "success"

\* A run was aborted when a thread with uncommitted inserts failed, and the
\* tables are not what they were when the run began.
C2_Witness ==
    /\ outcome = "WorkerPanic"
    /\ rolledBack # {}
    /\ TBLCOUNTDATA # before.C \/ TBLHEADER # before.H

\* C3 as stated: after two consecutive successful runs on the same file the
\* two tables hold the rows they held after the first of them.
C3_Original ==
    (outcome = "success" /\ reimport.same) =>
        /\ Data(TBLCOUNTDATA) = reimport.wasC
        /\ Data(TBLHEADER) = reimport.wasH

\* C4 as stated: a run that found the file removes it, however the run ends.
C4_Original ==
    outcome \notin {"none", "running"} => ~(file.present /\ file.opened)

\* A data row of the opened file that the row loop rejects.
Malformed(f) ==
    \E i \in 1..Len(f.rows) : ~DecodeRow(f.rows[i], LoadLayout).ok
RowErrors == {"UnreadableRow", "ParseError", "FieldCount", "TooMany", "TooFew",
              "UnexpectedNumber"}
LatestWorkers == {w \in BagToSet(workers) : Latest(w)}

\* C5: a run on a file with the expected header and a data row that does
\* not decode, at whatever position, never leaves the decode stage and makes
\* no sink call: no pool, no connection, no delete, insert or commit, no
\* receiver thread; it ends with the row's error and still no sink call.
C5_MalformedRowNoSinkCall ==
    /\ (file.opened /\ CheckHeader(file.header) = "ok" /\ Malformed(file)) =>
           /\ pc = "decode"
           /\ log = EmptyLog
           /\ LatestWorkers = {}
    /\ outcome \in RowErrors => log = EmptyLog /\ LatestWorkers = {}

\* The second data row was rejected for its timestamp, after the first was
\* decoded.
C5_Witness ==
    dec.stage = "rejected" /\ dec.err = "ParseError" /\ Len(dec.file.rows) = 2

\* A header record that is not the expected one, or none.
HeaderDiffers(h) ==
    \/ h.kind # "record"
    \/ Len(h.fields) # Len(EXPECTED_HEADER)
    \/ \E i \in 1..Len(EXPECTED_HEADER) : h.fields[i] # EXPECTED_HEADER[i]
HeaderErrors == {"HeaderNotFound", "HeaderUnreadable", "HeaderMismatch"}

\* C6: a run on a file whose header record differs from the expected header
\* in a field, or that has none, decodes no data row and makes no pool and no
\* sink call before it is rejected, and ends with a header error.
C6_HeaderRejectedFirst ==
    /\ (file.opened /\ HeaderDiffers(file.header)) =>
           /\ pc = "decode"
           /\ dec.stage \in {"header", "rejected"}
           /\ dec.stage = "rejected" => dec.err \in HeaderErrors
           /\ dec.pos = 0 /\ dec.dates = << >> /\ dec.all_counts = << >>
           /\ log = EmptyLog
           /\ LatestWorkers = {}
    /\ outcome \in HeaderErrors =>
           log = EmptyLog /\ LatestWorkers = {} /\ all_counts = << >> /\ dates = << >>

\* A file with one header field changed and a data row was rejected.
C6_Witness ==
    /\ dec.stage = "rejected" /\ dec.err = "HeaderMismatch"
    /\ Len(dec.file.header.fields) = Len(EXPECTED_HEADER)
    /\ dec.file.rows # << >>

AllOnce(counts, n) == Len(counts) = n /\ \A i \in 1..n : counts[i] = 1

\* C7: no aggregated insert is issued before every individual-insert thread
\* of the run has drained the queue and committed: once an aggregated insert
\* of the run was issued, each of the NUM_THREADS individual-insert threads
\* has committed and ended and every IndividualCount was inserted.
C7_InsertBarrier ==
    (log.aggInserts > 0 \/ Running("agg") # {}) =>
        /\ log.committed["ind"] = NUM_THREADS
        /\ log.indCommits = NUM_THREADS
        /\ \A w \in LatestWorkers : w.phase # "ind"
        /\ AllOnce(handled["ind"].done, Len(all_counts))
        /\ log.indInserts = Len(all_counts)

\* An aggregated insert of a run of two IndividualCounts has been issued.
C7_Witness == log.aggInserts > 0 /\ Len(all_counts) = 2

\* C8: no item is received by two threads or handled more often than it was
\* received, and in a run that ended with no failed call every date, every
\* IndividualCount and every AggregatedCount was received once and deleted
\* or inserted once.
C8_ExactlyOnce ==
    /\ \A ph \in {"del", "ind", "agg"} : \A i \in DOMAIN handled[ph].recv :
           handled[ph].recv[i] <= 1 /\ handled[ph].done[i] <= handled[ph].recv[i]
    /\ outcome = "success" =>
           /\ log.failed = 0
           /\ \A ph \in {"del", "ind", "agg"} :
                  /\ AllOnce(handled[ph].recv, Len(PhaseItems(ph)))
                  /\ AllOnce(handled[ph].done, Len(PhaseItems(ph)))
           /\ log.deletes = 2 * Len(dates) /\ log.delCommits = Len(dates)
           /\ log.indInserts = Len(all_counts)
           /\ log.aggInserts = Len(flattened_daily_counts)

\* A run of two dates and two IndividualCounts ended with no failed call.
C8_Witness ==
    /\ outcome = "success"
    /\ Len(dates) = 2 /\ Len(all_counts) = 2 /\ Len(flattened_daily_counts) = 2

\* C9: an insert thread commits at most once, and only when the queue is
\* empty and disconnected and it will insert no more; a thread that has ended
\* without panic, also one that received no record, has committed once; a run
\* with no failed call issues NUM_THREADS commits in each insert phase.
C9_OneCommitPerWorker ==
    /\ \A w \in BagToSet(workers) : w.phase \in {"ind", "agg"} =>
           /\ w.commits <= 1
           /\ w.pc \in {"commit", "done"} => chan[w.gen].q = << >> /\ ~chan[w.gen].open
           /\ w.pc = "done" <=> w.commits = 1
    /\ log.indCommits <= NUM_THREADS /\ log.aggCommits <= NUM_THREADS
    /\ (log.aggInserts > 0 /\ log.failed = 0) => log.indCommits = NUM_THREADS
    /\ outcome = "success" =>
           log.indCommits = NUM_THREADS /\ log.aggCommits = NUM_THREADS

\* A run with fewer IndividualCounts than insert threads ended with no failed
\* call.
C9_Witness ==
    outcome = "success" /\ Len(all_counts) > 0 /\ Len(all_counts) < NUM_THREADS

\* C10: after k data rows of a file with the expected header have decoded,
\* all_counts holds k times Len(LAYOUT) = 20 records: for each row in turn
\* one record per layout entry, in layout order, with the entry's location id
\* and the row's timestamp; the 20 location ids are pairwise distinct.
C10_OnePerEntryPerRow ==
    /\ Len(LAYOUT) = 20
    /\ \A i, j \in 1..Len(LAYOUT) :
           LAYOUT[i].location_id = LAYOUT[j].location_id => i = j
    /\ dec.stage \in {"rows", "aggregated", "done"} =>
           /\ CheckHeader(dec.file.header) = "ok"
           /\ Len(dec.all_counts) = (dec.pos - 1) * Len(LAYOUT)
           /\ \A k \in 1..(dec.pos - 1), e \in 1..Len(LAYOUT) :
                  LET c == dec.all_counts[(k - 1) * Len(LAYOUT) + e]
                  IN  /\ c.location_id = LAYOUT[e].location_id
                      /\ c.datetime = ParseDateTime(dec.file.rows[k].time).val
    /\ dec.stage \in {"aggregated", "done"} => dec.pos - 1 = Len(dec.file.rows)

\* Both rows of a file of two rows have decoded.
C10_Witness ==
    dec.stage = "done" /\ Len(dec.file.rows) = 2 /\ Len(dec.all_counts) = 40

\* The call of IndividualCount::new was made on a slice of n fields.
NewCalled(n) == call.fn = "new" /\ call.done /\ Len(call.arg.counts) = n

\* C11: IndividualCount::new gives TooMany for a slice of 5 with both flags
\* false, TooFew for a slice of 3 with both flags true, and UnexpectedNumber
\* for a slice of any other length whatever the flags; no record comes with
\* an error.
C11_LayoutErrors ==
    (call.fn = "new" /\ call.done) =>
        LET n == Len(call.arg.counts)
            ped == call.arg.ped
            bike == call.arg.bike
        IN  /\ (n = 5 /\ ~ped /\ ~bike) => ~call.res.ok /\ call.res.err = "TooMany"
            /\ (n = 3 /\ ped /\ bike) => ~call.res.ok /\ call.res.err = "TooFew"
            /\ n \notin {3, 5} => ~call.res.ok /\ call.res.err = "UnexpectedNumber"
            /\ ~call.res.ok => call.res.val = << >>
            /\ call.res.ok => call.res.err = ""

\* The function was called on a slice of five fields with no flag and failed.
C11_Witness == NewCalled(5) /\ ~call.arg.ped /\ ~call.arg.bike /\ ~call.res.ok

\* C12 as stated: a slice of 5 succeeds only with both flags and fails with
\* TooMany otherwise; a slice of 3 succeeds only with exactly one flag and
\* fails with TooFew otherwise.
C12_Original ==
    /\ NewCalled(5) =>
           /\ call.res.ok <=> (call.arg.ped /\ call.arg.bike)
           /\ ~call.res.ok => call.res.err = "TooMany"
    /\ NewCalled(3) =>
           /\ call.res.ok <=> (call.arg.ped # call.arg.bike)
           /\ ~call.res.ok => call.res.err = "TooFew"

\* The present values among a sequence of optional integers.
RECURSIVE Present(_)
Present(opts) ==
    IF opts = << >> THEN << >>
    ELSE (IF IsSome(Head(opts)) THEN <<Unwrap(Head(opts))>> ELSE << >>)
         \o Present(Tail(opts))

RECURSIVE SumOf(_)
SumOf(ints) == IF ints = << >> THEN 0 ELSE Head(ints) + SumOf(Tail(ints))

\* Whether v is the sum of the addends as integers, computed on the two
\* halves of each number so that no intermediate value leaves 32 bits.
IsSumOf(v, addends) ==
    LET lo == SumOf([i \in DOMAIN addends |-> addends[i] % 65536])
        hi == SumOf([i \in DOMAIN addends |-> addends[i] \div 65536])
    IN  v \div 65536 = hi + (lo \div 65536) /\ v % 65536 = lo % 65536

\* Absent when every addend is absent, else the sum of the present addends.
IsAbsorbingSum(field, opts) ==
    IF Present(opts) = << >> THEN field = None
    ELSE IsSome(field) /\ IsSumOf(Unwrap(field), Present(opts))

\* The decoded records of one location and date, and their fields in turn.
CountsOf(counts, k) ==
    SelectSeq(counts, LAMBDA c : c.location_id = k[1] /\ DateOf(c.datetime) = k[2])
RECURSIVE InOuts(_, _, _)
InOuts(counts, fin, fout) ==
    IF counts = << >> THEN << >>
    ELSE <<Head(counts)[fin], Head(counts)[fout]>> \o InOuts(Tail(counts), fin, fout)
Totals(counts) == [i \in DOMAIN counts |-> counts[i].total]
KeysOf(counts) ==
    {<<counts[i].location_id, DateOf(counts[i].datetime)>> : i \in DOMAIN counts}

\* C13 as stated: for every location and date of the run the aggregate's
\* total_ped is the absent-absorbing sum of the ped_in and ped_out of the
\* location's records of that date, total_bike that of bike_in and bike_out,
\* and total that of their totals.
C13_Original ==
    dec.stage \in {"aggregated", "done"} =>
        \A k \in KeysOf(dec.all_counts) :
            /\ k \in DOMAIN dec.daily_counts
            /\ LET rows == CountsOf(dec.all_counts, k)
                   sums == dec.daily_counts[k]
               IN  /\ IsAbsorbingSum(sums[1], InOuts(rows, "ped_in", "ped_out"))
                   /\ IsAbsorbingSum(sums[2], InOuts(rows, "bike_in", "bike_out"))
                   /\ IsAbsorbingSum(sums[3], Totals(rows))

\* The columns that hold a station's total, and a record with every other
\* count field emptied.
TotalColumns == {LAYOUT[e].first : e \in 1..Len(LAYOUT)}
TotalsOnly(row) ==
    [row EXCEPT !.fields = [i \in DOMAIN @ |-> IF i \in TotalColumns THEN @[i] ELSE << >>]]
RECURSIVE DecodeAll(_)
DecodeAll(rows) ==
    IF rows = << >> THEN << >>
    ELSE DecodeRow(Head(rows), LAYOUT).counts \o DecodeAll(Tail(rows))

\* C14: the totals depend on the total columns alone: every IndividualCount
\* has the total of its station's total column, and the IndividualCounts and
\* the aggregates of the file have the totals they have for the file with
\* every pedestrian and bicycle in/out field emptied.
C14_TotalsIndependent ==
    dec.stage \in {"aggregated", "done"} =>
        LET rows == dec.file.rows
            other == DecodeAll([i \in DOMAIN rows |-> TotalsOnly(rows[i])])
            sums == Aggregate(other, EmptyMap)
        IN  /\ Len(other) = Len(dec.all_counts)
            /\ \A i \in DOMAIN other :
                   /\ other[i].total = dec.all_counts[i].total
                   /\ other[i].location_id = dec.all_counts[i].location_id
            /\ \A k \in 1..Len(rows), e \in 1..Len(LAYOUT) :
                   dec.all_counts[(k - 1) * Len(LAYOUT) + e].total =
                       ParseI32(rows[k].fields[LAYOUT[e].first])
            /\ DOMAIN sums = DOMAIN dec.daily_counts
            /\ \A k \in DOMAIN sums : sums[k][3] = dec.daily_counts[k][3]

\* A file with in/out fields was aggregated, and for one location the total
\* is not the sum of the pedestrian and the bicycle total.
C14_Witness ==
    /\ dec.stage = "done"
    /\ \E i \in DOMAIN dec.file.rows : TotalsOnly(dec.file.rows[i]) # dec.file.rows[i]
    /\ \E k \in DOMAIN dec.daily_counts :
           LET sums == dec.daily_counts[k]
           IN  /\ IsSome(sums[1]) /\ IsSome(sums[2]) /\ IsSome(sums[3])
               /\ Unwrap(sums[1]) \in 0..100 /\ Unwrap(sums[2]) \in 0..100
               /\ Unwrap(sums[3]) # Unwrap(sums[1]) + Unwrap(sums[2])


\* The DD-MON-YY text of the calendar date of a data row (main.rs:358-368).
DateTextOf(row) == FormatDate(ParseDateTime(row.time).val)

\* list holds the date text of every row of rows exactly once and nothing else.
IsDateList(list, rows) ==
    /\ \A k \in DOMAIN rows :
           Cardinality({i \in DOMAIN list : list[i] = DateTextOf(rows[k])}) = 1
    /\ \A i \in DOMAIN list : \E k \in DOMAIN rows : list[i] = DateTextOf(rows[k])

\* The main thread is between the creation of the pool and the end of the run.
Loading == pc \in {"pool", "start", "spawn", "join_sender", "join_workers", "finish"}

C16_Original ==
    dec.stage \in {"aggregated", "done"} =>
        \A i, j \in DOMAIN dec.all_counts :
            (/\ dec.all_counts[i].location_id = dec.all_counts[j].location_id
             /\ dec.all_counts[i].datetime = dec.all_counts[j].datetime) => i = j

\* C17: the aggregator emits exactly one AggregatedCount for each distinct
\* (location_id, date) among the IndividualCounts of the file and none for any
\* other pair, so there are as many aggregated records as distinct pairs.
C17_OnePerLocationDate ==
    dec.stage \in {"aggregated", "done"} =>
        LET out == FlattenSet(dec.daily_counts)
            keys == KeysOf(dec.all_counts)
        IN  /\ \A k \in keys :
                   Cardinality({a \in out : <<a.location_id, a.date>> = k}) = 1
            /\ \A a \in out : <<a.location_id, a.date>> \in keys
            /\ Cardinality(out) = Cardinality(keys)

\* A file of two rows whose dates are a century apart was aggregated: every
\* location has two records and two aggregates.
C17_Witness ==
    /\ dec.stage = "aggregated"
    /\ Len(dec.file.rows) = 2
    /\ DateTextOf(dec.file.rows[1]) = DateTextOf(dec.file.rows[2])
    /\ Cardinality(KeysOf(dec.all_counts)) = 2 * Len(LAYOUT)
    /\ Cardinality(FlattenSet(dec.daily_counts)) = Len(dec.all_counts)

\* C18 as stated: once the poll loop has been entered the process never
\* exits, whatever the outcome of a run.
C18_Original == pc # "crashed"

\* The items of phase ph that a thread of the latest run has received.
Received(ph) == Cardinality({i \in DOMAIN handled[ph].recv : handled[ph].recv[i] >= 1})

\* C19: once a delete, insert or commit call of a run has failed, the run
\* stays in the phase of that call and does not end with the success summary:
\* after a failure in the delete phase no insert or insert commit is issued,
\* after one in the individual phase no aggregated insert or commit; and no
\* call is issued again, the failed one included: no item is received twice
\* and a run issues at most two deletes, one delete commit or one insert per
\* received item and at most NUM_THREADS commits per insert phase.
C19_FailureAborts ==
    /\ \A ph \in log.failedIn :
           /\ phase = ph
           /\ pc \notin {"start", "finish"}
           /\ outcome # "success"
           /\ \A w \in LatestWorkers : w.phase = ph
           /\ ph = "del" => log.indInserts + log.indCommits = 0
           /\ ph \in {"del", "ind"} => log.aggInserts + log.aggCommits = 0
    /\ \A ph \in {"del", "ind", "agg"} : \A i \in DOMAIN handled[ph].recv :
           handled[ph].recv[i] <= 1
    /\ log.deletes <= 2 * Received("del")
    /\ log.delCommits <= Received("del")
    /\ log.indInserts <= Received("ind")
    /\ log.aggInserts <= Received("agg")
    /\ log.indCommits <= NUM_THREADS
    /\ log.aggCommits <= NUM_THREADS

\* A run was aborted after a call of its individual-insert phase failed.
C19_Witness ==
    /\ log.failedIn = {"ind"}
    /\ outcome = "WorkerPanic"
    /\ pc = "poll"
    /\ log.indInserts > 0

\* The threads that hold a connection and can still issue a call: a receiver
\* thread owns its connection from its spawn to its end.
Holders == {w \in BagToSet(workers) : w.pc \notin {"done", "panicked"}}
CheckedOut == BagCardinality([w \in Holders |-> workers[w]])

\* C20 as stated: at every moment at most NUM_THREADS connections are checked
\* out by workers that can still issue sink calls, across successive runs and
\* after a run that aborted on a worker failure.
C20_Original == CheckedOut <= NUM_THREADS

\* C21 as stated: every run terminates and the loop returns to polling.
C21_Original == (pc # "poll") ~> (pc = "poll")

\* The rows of the two tables that the latest run inserted.
OwnRows(table) == {r \in table : r.id[1] = runs}

\* C22 as stated: no row inserted by a run is committed before both insert
\* phases of the run have completed.
C22_Original ==
    OwnRows(TBLCOUNTDATA) \cup OwnRows(TBLHEADER) # {} =>
        pc = "finish" \/ outcome = "success"

\* The queue of run g is empty and disconnected.
Drained(g) == ~chan[g].open /\ chan[g].q = << >>

\* C22 as amended: a row a thread has inserted is in no table before the
\* thread's commit, which the thread issues once the queue of its phase is
\* empty and disconnected: the individual rows of a run are committed at the
\* end of the individual-insert phase, the aggregated rows at the end of the
\* aggregated-insert phase and only after every individual-insert thread of
\* the run has committed.
C22_CommittedAtPhaseEnd ==
    /\ \A w \in BagToSet(workers) :
           w.pending.ins \cap (TBLCOUNTDATA \cup TBLHEADER) = {}
    /\ \A r \in TBLCOUNTDATA : r.id[2] = "ind"
    /\ OwnRows(TBLCOUNTDATA) # {} => Drained(runs) \/ phase = "agg"
    /\ \A r \in TBLHEADER : r.id[2] = "agg" /\ Drained(r.id[1])
    /\ OwnRows(TBLHEADER) # {} =>
           phase = "agg" /\ log.committed["ind"] = NUM_THREADS

\* An individual row of the latest run is committed while the run is still in
\* its individual-insert phase and the row's date has no aggregated row.
C22_Witness ==
    /\ Loading /\ phase = "ind"
    /\ \E r \in OwnRows(TBLCOUNTDATA) :
           \A h \in TBLHEADER : ToCharDDMONYY(h.countdate) # ToCharDDMONYY(r.countdate)

\* A thread whose next step is a delete, an insert or a commit.
AboutToCall(w) == w.pc \in {"delete1", "delete2", "delcommit", "insert", "commit"}

\* C23 as stated: once a run was aborted on a failed worker and the main loop
\* is back at polling, or a later run has begun, no thread of the aborted run
\* issues a delete, an insert or a commit any more.
C23_Original ==
    \A w \in BagToSet(workers) :
        (w.gen # runs \/ (pc = "poll" /\ outcome = "WorkerPanic")) => ~AboutToCall(w)

\* C24: in a record that IndividualCount::new returns, total is the first
\* field of the slice; a slice of five fields gives ped_in, ped_out, bike_in
\* and bike_out from its second to fifth field in that order; a slice of
\* three with only the pedestrian flag gives ped_in and ped_out from its
\* second and third field and no bike_in or bike_out, and one with only the
\* bicycle flag gives bike_in and bike_out from them and no ped_in or ped_out.
C24_FieldMapping ==
    (call.fn = "new" /\ call.done /\ call.res.ok) =>
        LET c == call.arg.counts
            v == call.res.val
        IN  /\ v.total = c[1]
            /\ Len(c) = 5 =>
                   <<v.ped_in, v.ped_out, v.bike_in, v.bike_out>> = <<c[2], c[3], c[4], c[5]>>
            /\ (Len(c) = 3 /\ call.arg.ped /\ ~call.arg.bike) =>
                   <<v.ped_in, v.ped_out, v.bike_in, v.bike_out>> = <<c[2], c[3], None, None>>
            /\ (Len(c) = 3 /\ ~call.arg.ped /\ call.arg.bike) =>
                   <<v.ped_in, v.ped_out, v.bike_in, v.bike_out>> = <<None, None, c[2], c[3]>>

\* The function returned a record for a slice of three fields with only the
\* bicycle flag, whose second field is present and whose third is absent.
C24_Witness ==
    /\ NewCalled(3) /\ call.res.ok
    /\ ~call.arg.ped /\ call.arg.bike
    /\ IsSome(call.arg.counts[2]) /\ ~IsSome(call.arg.counts[3])

\* A field that is an integer as written: an optional sign and digits only.
IsIntegerText(s) ==
    LET body == IF s # << >> /\ Head(s) \in {"+", "-"} THEN Tail(s) ELSE s
    IN  body # << >> /\ \A i \in 1..Len(body) : body[i] \in Digits

\* A data row the row loop accepts whatever its count fields hold.
WellFormedRow(row) ==
    /\ row.readable
    /\ ParseDateTime(row.time).ok
    /\ Len(row.fields) + 1 = Len(EXPECTED_HEADER)

\* The count fields of a record, in the order of the columns of a station
\* with both counters.
CountFields == <<"total", "ped_in", "ped_out", "bike_in", "bike_out">>

\* All values of a sequence of options are absent.
AllAbsent(vals) == \A i \in DOMAIN vals : vals[i] = None

\* C25: an empty or non-integer count field is decoded as absent, not as
\* zero, and does not end the run: a file is rejected only for its header or
\* for a row that is unreadable, has no valid time or has a wrong number of
\* fields.  The absence is carried unchanged into the row inserted into
\* TBLCOUNTDATA, and a sum of the aggregate is absent exactly when every
\* addend is absent, in the AggregatedCount and in the row inserted into
\* TBLHEADER.
C25_AbsentStaysAbsent ==
    /\ dec.stage = "rejected" =>
           \/ dec.file.header # HeaderOk
           \/ \E k \in DOMAIN dec.file.rows : ~WellFormedRow(dec.file.rows[k])
    /\ Loading =>
           /\ \A k \in DOMAIN file.rows, e \in DOMAIN LoadLayout :
                  LoadLayout[e].last - LoadLayout[e].first = 4 =>
                      \A f \in DOMAIN CountFields :
                          LET text == file.rows[k].fields[LoadLayout[e].first + f - 1]
                              c == all_counts[(k - 1) * Len(LoadLayout) + e]
                          IN  ~IsIntegerText(text) => c[CountFields[f]] = None
           /\ \A r \in OwnRows(TBLCOUNTDATA) :
                  LET c == all_counts[r.id[3]]
                  IN  <<r.total, r.pedin, r.pedout, r.bikein, r.bikeout>>
                          = <<c.total, c.ped_in, c.ped_out, c.bike_in, c.bike_out>>
           /\ \A i \in DOMAIN flattened_daily_counts :
                  LET a == flattened_daily_counts[i]
                      cs == CountsOf(all_counts, <<a.location_id, a.date>>)
                  IN  /\ a.total_ped = None <=> AllAbsent(InOuts(cs, "ped_in", "ped_out"))
                      /\ a.total_bike = None <=> AllAbsent(InOuts(cs, "bike_in", "bike_out"))
                      /\ a.total = None <=> AllAbsent(Totals(cs))
           /\ \A h \in OwnRows(TBLHEADER) :
                  LET a == flattened_daily_counts[h.id[3]]
                  IN  <<h.totalped, h.totalbike, h.total>>
                          = <<a.total_ped, a.total_bike, a.total>>

\* A row of a file whose first station has an empty ped_in, a bike_in that is
\* no integer and a bike_out of zero is committed with both absent and the
\* zero present.
C25_Witness ==
    /\ Loading
    /\ \E r \in OwnRows(TBLCOUNTDATA) :
           /\ r.pedin = None /\ r.bikein = None /\ r.bikeout = Some(0)
           /\ \E k \in DOMAIN file.rows :
                  /\ file.rows[k].fields[2] = << >>
                  /\ file.rows[k].fields[4] # << >>
                  /\ ~IsIntegerText(file.rows[k].fields[4])

\* The 0-based numbers of the columns of a record as long as the header, and
\* those that the slice of layout entry e takes.
ColumnNumbers == [i \in 1..Len(EXPECTED_HEADER) |-> i - 1]
ColumnsOf(e) ==
    LET sl == Slice(ColumnNumbers, LAYOUT[e].first, LAYOUT[e].last)
    IN  {sl[i] : i \in DOMAIN sl}
LastColumn == Len(EXPECTED_HEADER) - 1

\* The ranges of the layout entries are pairwise disjoint, follow one another
\* without gap from column 1 and start at the total column of their station.
RangesInOrder ==
    /\ Len(LAYOUT) = 20
    /\ \A e, f \in DOMAIN LAYOUT : e # f => ColumnsOf(e) \cap ColumnsOf(f) = {}
    /\ LAYOUT[1].first = 1
    /\ \A e \in 1..(Len(LAYOUT) - 1) : LAYOUT[e + 1].first = LAYOUT[e].last + 1
    /\ \A e \in DOMAIN LAYOUT :
           /\ ColumnsOf(e) = LAYOUT[e].first .. LAYOUT[e].last
           /\ LAYOUT[e].location_id \in DOMAIN TOTAL_HEADER
           /\ EXPECTED_HEADER[LAYOUT[e].first + 1] = TOTAL_HEADER[LAYOUT[e].location_id]

\* C26 as stated: the ranges are pairwise disjoint, start at the total column
\* of their station and together cover every column of the expected header
\* after the timestamp column.
C26_Original ==
    dec.stage \in {"rows", "aggregated", "done"} =>
        /\ RangesInOrder
        /\ UNION {ColumnsOf(e) : e \in DOMAIN LAYOUT} = 1..LastColumn

\* C26 as amended: the ranges are pairwise disjoint, start at the total column
\* of their station and together cover every column of the expected header
\* after the timestamp column except the last one, whose header is the empty
\* text and which no entry reads.
C26_LayoutPartition ==
    dec.stage \in {"rows", "aggregated", "done"} =>
        /\ RangesInOrder
        /\ UNION {ColumnsOf(e) : e \in DOMAIN LAYOUT} = 1..(LastColumn - 1)
        /\ EXPECTED_HEADER[LastColumn + 1] = ""

\* A row of a file with the expected header was decoded into one record for
\* each layout entry.
C26_Witness ==
    /\ dec.stage = "rows" /\ dec.pos = 2
    /\ dec.file.header = HeaderOk
    /\ Len(dec.all_counts) = Len(LAYOUT)

\* The three counters of the summary (main.rs:904-906): each worker adds one
\* after a delete commit or an insert that returned Ok, and the main thread
\* reads them after the joins.
RECURSIVE SumSeq(_)
SumSeq(q) == IF q = << >> THEN 0 ELSE Head(q) + SumSeq(Tail(q))
num_deletes == SumSeq(handled["del"].done)
num_individual_inserts == SumSeq(handled["ind"].done)
num_aggregated_inserts == SumSeq(handled["agg"].done)

\* The calendar dates of the rows of a file.
CalendarDates(rows) == {DateOf(ParseDateTime(rows[k].time).val) : k \in DOMAIN rows}

\* C27 as stated: when the success summary is logged, the dates deleted are
\* as many as the distinct dates of the file, the individual inserts as many
\* as its IndividualCounts (rows times layout entries) and the aggregated
\* inserts as many as the distinct pairs of location and date.
C27_Original ==
    pc = "finish" =>
        /\ num_deletes = Cardinality(CalendarDates(file.rows))
        /\ num_individual_inserts = Len(file.rows) * Len(LoadLayout)
        /\ num_individual_inserts = Len(all_counts)
        /\ num_aggregated_inserts = Cardinality(KeysOf(all_counts))

\* The threads of run r that have not ended.
LiveOf(r) == {w \in BagToSet(workers) : w.gen = r /\ w.pc \notin {"done", "panicked"}}

\* How often item i of the current phase is waiting: still with the sender
\* or in the queue.
Waiting(i) ==
    Cardinality({k \in DOMAIN toSend : toSend[k].idx = i})
        + Cardinality({k \in DOMAIN chan[runs].q : chan[runs].q[k].idx = i})

\* The main thread is at the spawns or joins of a phase, or the run has ended
\* by a failed join or with the summary.
PhaseUnderWay ==
    \/ pc \in {"spawn", "join_sender", "join_workers", "finish"}
    \/ pc = "poll" /\ outcome \in {"WorkerPanic", "success"}

\* An insert of run r has failed and records are left in the queue of r.
RecordsLeft(r) ==
    /\ runs = r
    /\ log.failedIn \cap {"ind", "agg"} # {}
    /\ chan[r].q # << >>

\* What holds in every state of C28.
FailedWorkerStopped ==
    /\ \A w \in BagToSet(workers) :
           (w.pc = "panicked" /\ w.phase \in {"ind", "agg"}) =>
               w.commits = 0 /\ w.pending.ins = {}
    /\ \A r \in TBLCOUNTDATA \cup TBLHEADER : r.id \notin rolledBack
    /\ PhaseUnderWay =>
           \A i \in DOMAIN handled[phase].recv :
               Waiting(i) + handled[phase].recv[i] = 1

\* C28: an insert thread whose insert failed has ended without a commit and
\* the rows it had inserted are in no table, ever; no record is lost or
\* received twice by the failure, each being with the sender, in the queue or
\* received once; and the records left in the queue are received by the
\* threads of the run that are still running, while the process lives.
C28_FailedInsertWorkerStops ==
    /\ []FailedWorkerStopped
    /\ \A r \in 1..(MaxRuns + 1) :
           RecordsLeft(r) ~> (chan[r].q = << >> \/ pc = "crashed" \/ LiveOf(r) = {})

\* An insert of the individual phase has failed in a thread that had already
\* inserted a record, while another record is left in the queue.
C28_Witness ==
    /\ RecordsLeft(runs)
    /\ log.failedIn = {"ind"}
    /\ rolledBack # {}
    /\ LiveOf(runs) # {}
====
